---- MODULE Spec2Model ----
(***************************************************************************)
(* Starting-scenario generator of dronefeint                               *)
(* (src/game/scenarios/fairnessReport.ts, neutralRebalancer.ts,            *)
(* fairnessMetrics.ts) as a state machine.                                 *)
(*                                                                         *)
(* Numbers.  The program computes in IEEE doubles; the model computes in   *)
(* integers: coordinates and radii are whole map units, angles are whole   *)
(* degrees, a draw of the RNG is the integer k with rng() = k / 1000000,   *)
(* sines and cosines are table values scaled by TrigScale, and distances   *)
(* that are added or compared with each other are tenths of a unit.  The   *)
(* RNG itself and the seed arithmetic are exact.                           *)
(***************************************************************************)
EXTENDS Integers, Sequences, FiniteSets, TLC

(***************************************************************************)
(* Bounds of the model                                                     *)
(***************************************************************************)
\* nested calls the JavaScript call stack has room for in the recursion of line 1667
MaxStackDepth == 1
\* number of entries of outpost-names.txt (the file is not part of src/)
OutpostNameCount == 12

(***************************************************************************)
(* Program constants                                                       *)
(***************************************************************************)
MAP_WIDTH == 2660
MAP_HEIGHT == 2100
NUM_PLAYERS == 5
MIN_HQ_TRAVEL_TIME_SEC == 180
CARRIER_SPEED_UNITS_PER_SEC == 6
HQ_HQ_MIN_DISTANCE == MIN_HQ_TRAVEL_TIME_SEC * CARRIER_SPEED_UNITS_PER_SEC
SAT_COUNT == 3
\* degrees
SAT_ANGLE_SPREAD == 100
SAT_MIN_ANGLE_SEP == 35
CLUSTER_DISTANCE_MIN == 210
CLUSTER_DISTANCE_MAX == 320
CLUSTER_MIN_SEPARATION == 140
CLUSTER_FOREIGN_MARGIN == 60
CROSS_PLAYER_SONAR_BUFFER == 380
NEUTRAL_MIN_SEPARATION == 240
\* one neutral more than two per player
NEUTRAL_COUNT_AND_ONE == NUM_PLAYERS * 2 + 1
NEUTRAL_COUNT == NUM_PLAYERS * 2
NEUTRAL_TYPE_POOL == <<"foundry", "foundry", "foundry", "foundry", "foundry",
                       "reactor", "reactor", "reactor", "reactor", "reactor">>
NEUTRAL_CENTER_COUNT_RANGE == [min |-> 3, max |-> 7]
NEUTRAL_NEAR_RADIUS == 450
CENTER_OCCUPANCY_RADIUS == 450
NEUTRAL_MID_RADIUS == 900
NEUTRAL_FAR_RADIUS == 1400
\* 0.15 rad, in thousandths of a degree
NEUTRAL_WEDGE_OFFSET_MIN == 8594
BACKFIELD_RADIUS_RANGE == <<340, 430>>
\* Math.PI, in degrees
BACKFIELD_ANGLE_JITTER == 180
BACKFIELD_COUNT == 3
CENTER_NEUTRAL_RADIUS_RANGE == <<220, 420>>
CENTER_BAND_RADIUS_MIN == 280
\* TARGET_MARGIN_RATIO = 0.02, in percent
TARGET_MARGIN_RATIO == 2
sizeByType == [hq |-> 25, foundry |-> 24, reactor |-> 25]
NEUTRAL_TEMPLATES == << [radiusRange |-> <<750, 950>>, angleJitter |-> 180],
                        [radiusRange |-> <<900, 1200>>, angleJitter |-> 180],
                        [radiusRange |-> <<800, 1300>>, angleJitter |-> 180] >>
\* the modulus and divisor of the RNG's return value (line 1018)
RngModulus == 1000000

(***************************************************************************)
(* Fixed-point arithmetic standing for Math.sin, Math.cos, Math.atan2,     *)
(* Math.hypot                                                              *)
(***************************************************************************)
TrigScale == 10000
\* SinTable[a + 1] = round(TrigScale * sin(a degrees)), a = 0..90
SinTable == <<
  0, 175, 349, 523, 698, 872, 1045, 1219, 1392, 1564, 1736, 1908, 2079,
  2250, 2419, 2588, 2756, 2924, 3090, 3256, 3420, 3584, 3746, 3907, 4067, 4226,
  4384, 4540, 4695, 4848, 5000, 5150, 5299, 5446, 5592, 5736, 5878, 6018, 6157,
  6293, 6428, 6561, 6691, 6820, 6947, 7071, 7193, 7314, 7431, 7547, 7660, 7771,
  7880, 7986, 8090, 8192, 8290, 8387, 8480, 8572, 8660, 8746, 8829, 8910, 8988,
  9063, 9135, 9205, 9272, 9336, 9397, 9455, 9511, 9563, 9613, 9659, 9703, 9744,
  9781, 9816, 9848, 9877, 9903, 9925, 9945, 9962, 9976, 9986, 9994, 9998, 10000>>
\* SinHalfTable[a + 1] = round(TrigScale * sin((a + 1/2) degrees)), a = 0..89
SinHalfTable == <<
  87, 262, 436, 610, 785, 958, 1132, 1305, 1478, 1650, 1822, 1994, 2164,
  2334, 2504, 2672, 2840, 3007, 3173, 3338, 3502, 3665, 3827, 3987, 4147, 4305,
  4462, 4617, 4772, 4924, 5075, 5225, 5373, 5519, 5664, 5807, 5948, 6088, 6225,
  6361, 6494, 6626, 6756, 6884, 7009, 7133, 7254, 7373, 7490, 7604, 7716, 7826,
  7934, 8039, 8141, 8241, 8339, 8434, 8526, 8616, 8704, 8788, 8870, 8949, 9026,
  9100, 9171, 9239, 9304, 9367, 9426, 9483, 9537, 9588, 9636, 9681, 9724, 9763,
  9799, 9833, 9863, 9890, 9914, 9936, 9954, 9969, 9981, 9990, 9997, 10000>>

Abs(n) == IF n < 0 THEN -n ELSE n
Max(a, b) == IF a >= b THEN a ELSE b
Min(a, b) == IF a <= b THEN a ELSE b

SinRed(a) == IF a <= 90 THEN SinTable[a + 1]
             ELSE IF a <= 180 THEN SinTable[181 - a]
             ELSE IF a <= 270 THEN -SinTable[a - 179]
             ELSE -SinTable[361 - a]
\* Math.sin and Math.cos of an angle in degrees, times TrigScale
Sin(a) == SinRed(a % 360)
Cos(a) == SinRed((a + 90) % 360)
\* v / TrigScale rounded to the nearest integer
Round(v) == (v + (TrigScale \div 2)) \div TrigScale

\* the number of a in 0..89 with tan((a + 1/2) degrees) <= ay / ax
RECURSIVE QuadDeg(_, _, _, _)
QuadDeg(ay, ax, lo, hi) ==
  IF lo >= hi THEN lo
  ELSE LET mid == (lo + hi) \div 2
       IN IF ay * SinHalfTable[90 - mid] >= ax * SinHalfTable[mid + 1]
          THEN QuadDeg(ay, ax, mid + 1, hi)
          ELSE QuadDeg(ay, ax, lo, mid)
\* Math.atan2(dy, dx) to the nearest degree, in -180..180
Atan2(dy, dx) ==
  IF dx = 0 /\ dy = 0 THEN 0
  ELSE LET t == QuadDeg(Abs(dy), Abs(dx), 0, 90)
       IN IF dy >= 0 THEN (IF dx >= 0 THEN t ELSE 180 - t)
          ELSE (IF dx >= 0 THEN -t ELSE t - 180)

\* floor of the square root
RECURSIVE SqrtFrom(_, _)
SqrtFrom(n, x) ==
  LET y == (x + n \div x) \div 2
  IN IF y >= x THEN x ELSE SqrtFrom(n, y)
\* a power of two above the square root of n, at most four times the root
SqrtSeed(n) ==
  IF n < 4194304
  THEN (IF n < 16384 THEN (IF n < 256 THEN 16 ELSE IF n < 4096 THEN 64 ELSE 128)
        ELSE IF n < 262144 THEN (IF n < 65536 THEN 256 ELSE 512)
        ELSE IF n < 1048576 THEN 1024 ELSE 2048)
  ELSE IF n < 67108864 THEN (IF n < 16777216 THEN 4096 ELSE 8192)
  ELSE IF n < 268435456 THEN 16384
  ELSE IF n < 1073741824 THEN 32768 ELSE 46341
Sqrt(n) == IF n = 0 THEN 0 ELSE SqrtFrom(n, SqrtSeed(n))

(***************************************************************************)
(* Seeds.  A JavaScript number that is a seed is modelled by its sign, the *)
(* integer part of its magnitude as the limbs <<top, hi, lo>> (value       *)
(* top * 2^32 + hi * 2^16 + lo) and whether it has a fractional part.      *)
(* Magnitudes up to 2^53 are covered: every integer below 2^53 is a        *)
(* double, and 2^53 + 1 is not.                                            *)
(***************************************************************************)
Limb == 65536
\* the limbs of 2^53
TwoTo53 == <<2097152, 0, 0>>
Num(n) == <<0, n \div Limb, n % Limb>>
Number(neg, n, frac) == [neg |-> neg, mag |-> Num(n), frac |-> frac]
IsZero(m) == m = <<0, 0, 0>>

\* Math.abs
Math_abs(v) == [v EXCEPT !.neg = FALSE]
\* m + 1 on integers, exact
Succ(m) == IF m[3] + 1 < Limb THEN <<m[1], m[2], m[3] + 1>>
           ELSE IF m[2] + 1 < Limb THEN <<m[1], m[2] + 1, 0>>
           ELSE <<m[1] + 1, 0, 0>>
\* Math.floor
Math_floor(v) == IF ~v.frac THEN v
                 ELSE IF v.neg THEN [neg |-> TRUE, mag |-> Succ(v.mag), frac |-> FALSE]
                 ELSE [v EXCEPT !.frac = FALSE]
\* Math.max(1, v) for an integer v
Math_max1(v) == IF v.neg \/ IsZero(v.mag) THEN [neg |-> FALSE, mag |-> Num(1), frac |-> FALSE]
                ELSE v
\* Math.max(1, Math.abs(Math.floor(seed)))
normalizeSeedFloorFirst(v) == Math_max1(Math_abs(Math_floor(v))).mag
\* resolvedSeed of a finite numeric options.seed (lines 1009-1012)
normalizeSeed(v) == Math_max1(Math_floor(Math_abs(v))).mag
\* resolvedSeed + 1 in double arithmetic (line 1654): exact below 2^53; 2^53 + 1 lies
\* half-way between the doubles 2^53 and 2^53 + 2 and rounds to the even one, 2^53
retrySeedOf(m) == IF m = TwoTo53 THEN m ELSE Succ(m)
\* ToInt32 of a non-negative integer, as the two 16-bit halves of its low 32 bits
ToInt32(m) == <<m[2], m[3]>>

(***************************************************************************)
(* The RNG (lines 1013-1019).  The state s is a signed 32-bit integer,     *)
(* held as <<hi, lo>>, the unsigned upper and lower 16 bits of its two's   *)
(* complement.                                                             *)
(***************************************************************************)
XorTab == <<
  <<0, 1, 2, 3, 4, 5, 6, 7, 8, 9, 10, 11, 12, 13, 14, 15>>,
  <<1, 0, 3, 2, 5, 4, 7, 6, 9, 8, 11, 10, 13, 12, 15, 14>>,
  <<2, 3, 0, 1, 6, 7, 4, 5, 10, 11, 8, 9, 14, 15, 12, 13>>,
  <<3, 2, 1, 0, 7, 6, 5, 4, 11, 10, 9, 8, 15, 14, 13, 12>>,
  <<4, 5, 6, 7, 0, 1, 2, 3, 12, 13, 14, 15, 8, 9, 10, 11>>,
  <<5, 4, 7, 6, 1, 0, 3, 2, 13, 12, 15, 14, 9, 8, 11, 10>>,
  <<6, 7, 4, 5, 2, 3, 0, 1, 14, 15, 12, 13, 10, 11, 8, 9>>,
  <<7, 6, 5, 4, 3, 2, 1, 0, 15, 14, 13, 12, 11, 10, 9, 8>>,
  <<8, 9, 10, 11, 12, 13, 14, 15, 0, 1, 2, 3, 4, 5, 6, 7>>,
  <<9, 8, 11, 10, 13, 12, 15, 14, 1, 0, 3, 2, 5, 4, 7, 6>>,
  <<10, 11, 8, 9, 14, 15, 12, 13, 2, 3, 0, 1, 6, 7, 4, 5>>,
  <<11, 10, 9, 8, 15, 14, 13, 12, 3, 2, 1, 0, 7, 6, 5, 4>>,
  <<12, 13, 14, 15, 8, 9, 10, 11, 4, 5, 6, 7, 0, 1, 2, 3>>,
  <<13, 12, 15, 14, 9, 8, 11, 10, 5, 4, 7, 6, 1, 0, 3, 2>>,
  <<14, 15, 12, 13, 10, 11, 8, 9, 6, 7, 4, 5, 2, 3, 0, 1>>,
  <<15, 14, 13, 12, 11, 10, 9, 8, 7, 6, 5, 4, 3, 2, 1, 0>>>>
XorNibble(a, b) == XorTab[a + 1][b + 1]
\* a ^ b on 16-bit values
Xor16(a, b) == XorNibble(a % 16, b % 16)
               + 16 * XorNibble((a \div 16) % 16, (b \div 16) % 16)
               + 256 * XorNibble((a \div 256) % 16, (b \div 256) % 16)
               + 4096 * XorNibble(a \div 4096, b \div 4096)
\* s ^= s << 5
rngShl5(hi, lo) == <<Xor16(hi, (hi % 2048) * 32 + lo \div 2048), Xor16(lo, (lo % 2048) * 32)>>
\* s ^= s >>> 17: a shift that fills with zeros
rngShr17Logical(hi, lo) == rngShl5(hi, Xor16(lo, hi \div 2))
\* s ^= s >> 17: the shift is arithmetic, it copies the sign bit into the upper 17 bits
rngShr17(hi, lo) == IF hi >= 32768 THEN rngShl5(65535 - hi, Xor16(lo, hi \div 2 + 32768))
                    ELSE rngShl5(hi, Xor16(lo, hi \div 2))
\* the three updates of s in one call of rng (lines 1015-1017); s ^= s << 13 first
rngStep(v) == rngShr17(Xor16(v[1], (v[1] % 8) * 8192 + v[2] \div 8), Xor16(v[2], (v[2] % 8) * 8192))
\* (s >>> 0) % 1_000_000 (line 1018): the numerator k of the returned k / 1000000
rngValue(v) == (((((v[1] * 256) % RngModulus) * 256) % RngModulus) + v[2]) % RngModulus
\* one call of rng: the new state and the value drawn
rng(v) == LET returned(w) == [s |-> w, k |-> rngValue(w)] IN returned(rngStep(v))
\* the first n draws from state v, in order: <<[s, k], ...>>
RECURSIVE Draws(_, _)
Draws(v, n) == IF n = 0 THEN <<>>
               ELSE LET then(d) == <<d>> \o Draws(d.s, n - 1) IN then(rng(v))
\* a function over 1..n as a tuple
Tuple(f) == f \o <<>>
Values(ds) == Tuple([n \in 1..Len(ds) |-> ds[n].k])
StateAfter(v, ds) == IF Len(ds) = 0 THEN v ELSE ds[Len(ds)].s

(***************************************************************************)
(* Helpers of fairnessReport.ts (lines 551-593)                            *)
(***************************************************************************)
clamp(v, lo, hi) == Max(lo, Min(hi, v))

\* one swap of shuffle's loop: index i (1-based) with the drawn j = floor(rng() * i)
\* arr[i] = arr[j] without the write back to arr[j]
SwapOverwrite(a, i, j) == [a EXCEPT ![i] = a[j]]
\* [arr[i], arr[j]] = [arr[j], arr[i]]
Swap(a, i, j) == [a EXCEPT ![i] = a[j], ![j] = a[i]]
\* shuffle(arr, rng) given its Len(arr) - 1 draws ks, in drawing order
RECURSIVE shuffleFrom(_, _, _)
shuffleFrom(a, i, ks) ==
  IF i <= 1 THEN a
  ELSE shuffleFrom(Swap(a, i, ((ks[1] * i) \div RngModulus) + 1), i - 1, Tail(ks))
shuffle(arr, ks) == shuffleFrom(arr, Len(arr), ks)

\* the square of Math.hypot(dx, dy)
lengthSq(a, b) == (a.x - b.x) * (a.x - b.x) + (a.y - b.y) * (a.y - b.y)
\* length(a, b) in tenths of a unit, rounded down
length(a, b) == Sqrt(100 * lengthSq(a, b))
\* length(a, b) >= d, length(a, b) <= d, length(a, b) < d for a whole d
AtLeast(a, b, d) == lengthSq(a, b) >= d * d
AtMost(a, b, d) == lengthSq(a, b) <= d * d
Closer(a, b, d) == lengthSq(a, b) < d * d

polar(c, r, angle) == [x |-> c.x + Round(Cos(angle) * r), y |-> c.y + Round(Sin(angle) * r)]
project(anchorX, anchorY, angle, radial, tangential) ==
  [x |-> anchorX + Round(Cos(angle) * radial - Sin(angle) * tangential),
   y |-> anchorY + Round(Sin(angle) * radial + Cos(angle) * tangential)]
\* randomRange(min, max, rng) for the drawn k
randomRange(min, max, k) == min + ((max - min) * k) \div RngModulus
\* rng() * TWO_PI for the drawn k, in degrees
TurnOf(k) == (k * 360) \div RngModulus
\* (rng() - 0.5) * width for the drawn k
Jitter(k, width) == ((k - (RngModulus \div 2)) * width) \div RngModulus
\* clampAngle, in degrees: the representative in (-180, 180]
clampAngle(a) == LET m == a % 360 IN IF m > 180 THEN m - 360 ELSE m
\* clampAngle, in tenths of a degree
clampAngle10(a) == LET m == a % 3600 IN IF m > 1800 THEN m - 3600 ELSE m

center == [x |-> MAP_WIDTH \div 2, y |-> MAP_HEIGHT \div 2]
\* ringRadius (line 1031): HQ_HQ_MIN_DISTANCE / (2 sin(pi / NUM_PLAYERS)), rounded
ringRadius == (HQ_HQ_MIN_DISTANCE * TrigScale + Sin(180 \div NUM_PLAYERS))
              \div (2 * Sin(180 \div NUM_PLAYERS))
InMap(c) == ~(c.x < 0 \/ c.x > MAP_WIDTH \/ c.y < 0 \/ c.y > MAP_HEIGHT)
Pos(p) == [x |-> p.x, y |-> p.y]
\* arr.filter((_, i) => i !== idx) for the 1-based idx
Without(arr, idx) == SubSeq(arr, 1, idx - 1) \o SubSeq(arr, idx + 1, Len(arr))
SeqMax(q) == CHOOSE m \in {q[n] : n \in 1..Len(q)} : \A n \in 1..Len(q) : q[n] <= m
SeqMin(q) == CHOOSE m \in {q[n] : n \in 1..Len(q)} : \A n \in 1..Len(q) : q[n] >= m
\* arr.indexOf(v), 1-based
IndexOf(q, v) == CHOOSE n \in 1..Len(q) : q[n] = v /\ \A m \in 1..(n - 1) : q[m] # v

\* canPlaceNeutral without the look at the other neutrals
canPlaceNeutralAwayFromPlayers(candidate, placedPts, neutrals) ==
  \A n \in 1..Len(placedPts) : AtLeast(placedPts[n], candidate, NEUTRAL_MIN_SEPARATION)
\* canPlaceNeutral (lines 638-648)
canPlaceNeutral(candidate, placedPts, neutrals) ==
  /\ \A n \in 1..Len(placedPts) : AtLeast(placedPts[n], candidate, NEUTRAL_MIN_SEPARATION)
  /\ \A n \in 1..Len(neutrals) : AtLeast(neutrals[n], candidate, NEUTRAL_MIN_SEPARATION)

\* minAngleOffsetToWedge (lines 763-781), in degrees
minAngleOffsetToWedge(point, hqPts) ==
  IF Len(hqPts) = 0 THEN 180
  ELSE LET wedgeArc == 360 \div Len(hqPts)
           angle == (Atan2(point.y - center.y, point.x - center.x) + 360) % 360
           wedgeCenter(n) ==
             (Atan2(hqPts[n].y - center.y, hqPts[n].x - center.x) + wedgeArc \div 2 + 360) % 360
           least(diffs) == Min(180, CHOOSE m \in diffs : \A o \in diffs : m <= o)
       IN least({Abs(clampAngle(angle - wedgeCenter(n))) : n \in 1..Len(hqPts)})
\* minAngleOffsetToWedge(point, hqs, center) >= NEUTRAL_WEDGE_OFFSET_MIN * num / den
WedgeClear(point, hqPts, num, den) ==
  minAngleOffsetToWedge(point, hqPts) * 1000 * den >= NEUTRAL_WEDGE_OFFSET_MIN * num

(***************************************************************************)
(* Neutral statistics and the score (lines 673-809)                        *)
(***************************************************************************)
\* what Math.max(...[]) - Math.min(...[]) weighs in a score: -Infinity
NegInfinity == -2000000000
\* the three smallest values of lengthSq(from, pts[n]), ascending; -1 where there is none
RECURSIVE NearestSq(_, _, _, _)
NearestSq(from, pts, n, acc) ==
  IF n > Len(pts) THEN acc
  ELSE LET v == lengthSq(from, pts[n])
           below(m) == acc[m] # -1 /\ acc[m] <= v
       IN NearestSq(from, pts, n + 1,
                    IF below(3) THEN acc
                    ELSE IF below(2) THEN <<acc[1], acc[2], v>>
                    ELSE IF below(1) THEN <<acc[1], v, acc[2]>>
                    ELSE <<v, acc[1], acc[2]>>)
\* pts.map((n) => length(n, from)).sort((a, b) => a - b).slice(0, 3), in tenths
NearestThree(from, pts) ==
  LET sq == NearestSq(from, pts, 1, <<-1, -1, -1>>)
  IN Tuple([m \in 1..Min(3, Len(pts)) |-> Sqrt(100 * sq[m])])
\* the sum of the distances to the two nearest of pts (lines 727-731, 956-959), in tenths
NearestTwoSum(from, pts) ==
  LET sum(d) == IF Len(pts) = 0 THEN 0 ELSE IF Len(pts) = 1 THEN d[1] ELSE d[1] + d[2]
  IN sum(NearestThree(from, pts))
nearestSums(hqPts, neutrals) ==
  Tuple([n \in 1..Len(hqPts) |-> NearestTwoSum(hqPts[n], neutrals)])
SpreadOf(sums) == IF Len(sums) = 0 THEN 0 ELSE SeqMax(sums) - SeqMin(sums)
\* neutrals.filter((n) => length(n, center) <= CENTER_OCCUPANCY_RADIUS).length
centerCount(neutrals) ==
  Cardinality({n \in 1..Len(neutrals) : AtMost(neutrals[n], center, CENTER_OCCUPANCY_RADIUS)})
RECURSIVE SeqSum(_)
SeqSum(q) == IF Len(q) = 0 THEN 0 ELSE Head(q) + SeqSum(Tail(q))

\* computeNeutralStats (lines 673-761); neutralSpread in tenths of a unit,
\* neutralAngleStdDevDeg in tenths of a degree
computeNeutralStats(neutrals, hqPts) ==
  LET H == 1..Len(hqPts)
      N == 1..Len(neutrals)
      square(v) == v * v
      deviations(angles, angleMean) ==
        IF Len(neutrals) > 1
        THEN SeqSum(Tuple([n \in N |-> square(clampAngle10(10 * angles[n] - angleMean))]))
             \div Len(neutrals)
        ELSE 0
      angleVariance(angles) ==
        deviations(angles,
                   IF Len(neutrals) > 0 THEN (10 * SeqSum(angles)) \div Len(neutrals) ELSE 0)
      stats(nearCounts, nearMid) ==
        [empty |-> Len(neutrals) = 0 \/ Len(hqPts) = 0,
         nearRange |-> SpreadOf(nearCounts),
         midRange |-> SpreadOf(Tuple([h \in H |-> nearMid[h] - nearCounts[h]])),
         nearMidRange |-> SpreadOf(nearMid),
         centerCount |-> centerCount(neutrals),
         neutralAngleStdDevDeg |->
           Sqrt(angleVariance(Tuple([n \in N |->
                  Atan2(neutrals[n].y - center.y, neutrals[n].x - center.x)]))),
         neutralSpread |-> SpreadOf(nearestSums(hqPts, neutrals))]
  IN stats(Tuple([h \in H |->
             Cardinality({n \in N : AtMost(hqPts[h], neutrals[n], NEUTRAL_NEAR_RADIUS)})]),
           Tuple([h \in H |->
             Cardinality({n \in N : AtMost(hqPts[h], neutrals[n], NEUTRAL_MID_RADIUS)})]))

\* scoreNeutrals (lines 783-809), in hundredths
scoreNeutrals(neutrals, hqPts) ==
  LET score(stats) ==
        LET anglePenalty == Max(0, 50 - stats.neutralAngleStdDevDeg)
            centerPenalty ==
              IF stats.centerCount < NEUTRAL_CENTER_COUNT_RANGE.min
              THEN (NEUTRAL_CENTER_COUNT_RANGE.min - stats.centerCount) * 40
              ELSE IF stats.centerCount > NEUTRAL_CENTER_COUNT_RANGE.max
              THEN (stats.centerCount - NEUTRAL_CENTER_COUNT_RANGE.max) * 40
              ELSE 0
        IN IF stats.empty THEN NegInfinity
           ELSE stats.nearRange * 1000 + stats.midRange * 800 + stats.nearMidRange * 1200
                + stats.neutralSpread * 12 + anglePenalty * 500 + centerPenalty * 100
  IN score(computeNeutralStats(neutrals, hqPts))

(***************************************************************************)
(* Inputs: the options.seed values given to generateStartingScenario       *)
(***************************************************************************)
\* options.seed absent or not a finite number
NoSeed == [kind |-> "none", neg |-> FALSE, mag |-> Num(0), frac |-> FALSE]
Seed(neg, m, frac) == [kind |-> "number", neg |-> neg, mag |-> m, frac |-> frac]
\* values of Math.floor(Math.random() * 1e9) the model draws from
RandomSeeds == {0, 4}
\* the sequences of calls a behaviour makes, one after the other
\* the same seed twice, and a call without a seed
CallScripts == {
  << Seed(FALSE, Num(4), FALSE), Seed(FALSE, Num(4), FALSE) >>,
  << Seed(FALSE, Num(7), FALSE), Seed(FALSE, Num(7), FALSE) >>,
  << NoSeed >> }
\* a seed and its normal form: 0 and 1, -4.5 and 4, -7 and 7
SeedScripts == {
  << Seed(FALSE, Num(0), FALSE), Seed(FALSE, Num(1), FALSE) >>,
  << Seed(TRUE, Num(4), TRUE), Seed(FALSE, Num(4), FALSE) >>,
  << Seed(TRUE, Num(7), FALSE), Seed(FALSE, Num(7), FALSE) >> }
\* the seed 2^53, whose low 32 bits are 0
RetryScripts == { << Seed(FALSE, TwoTo53, FALSE) >> }
\* seeds whose rebalancing uses all its iterations and leaves work to the later repairs
StuckScripts == { << Seed(FALSE, Num(18), FALSE) >>, << Seed(FALSE, Num(5169), FALSE) >> }

VARIABLES
  script,             \* the calls still to be made
  pc,                 \* position in generateStartingScenario
  option,             \* options.seed of the outermost call in progress
  resolvedSeed,       \* resolvedSeed of the pass in progress, as limbs
  depth,              \* number of enclosing calls of the recursion of line 1666
  s,                  \* state of the RNG
  hqs,                \* the HQs on the ring
  placed,             \* player-owned structures placed so far
  sats,               \* satellites sampled for the current player
  neutralPlacements,  \* neutral positions before assembly
  frame,              \* locals of the loop in progress
  allPoints,          \* placed structures and neutrals after assembly
  result,             \* what the last finished call returned or threw
  history,            \* <<option, result>> of the finished calls, in order
  drawn,              \* the draws of the last step: the RNG state before, the values
  sampling,           \* locals of the runFairnessSamples call in progress
  samples,            \* what the last runFairnessSamples call returned
  narrative,          \* what the last buildFairnessNarrative call returned
  outposts,           \* the canonical outposts of the world
  carriers,           \* the canonical carriers of the world
  clock,              \* the time of the world
  lastSeenState,      \* the PlayerLastSeenState shared by the world-view calls
  worldView,          \* what the last buildPlayerWorldView call returned
  viewCalls           \* the arguments of the buildPlayerWorldView calls so far, in order

generatorVars == <<script, pc, option, resolvedSeed, depth, s, hqs, placed, sats,
                   neutralPlacements, frame, allPoints, result, history, drawn>>
reportVars == <<sampling, samples, narrative>>
fogVars == <<outposts, carriers, clock, lastSeenState, worldView, viewCalls>>
vars == <<generatorVars, reportVars, fogVars>>

NoResult == [kind |-> "none"]
NoFrame == [i |-> 0]
\* no runFairnessSamples call in progress
NoSampling == [active |-> FALSE, sampleSize |-> 0, startSeed |-> 0, i |-> 0, reports |-> <<>>]
\* new Map()
EmptyMap == <<>>

\* no fairness report was asked for yet
ReportIdle ==
  /\ sampling = NoSampling
  /\ samples = NoResult
  /\ narrative = NoResult
\* the world-view functions were not called yet on a world without outposts
FogIdle ==
  /\ outposts = <<>>
  /\ carriers = <<>>
  /\ clock = 0
  /\ lastSeenState = EmptyMap
  /\ worldView = NoResult
  /\ viewCalls = <<>>
\* no generateStartingScenario call was made yet and none is to be made
GeneratorIdle ==
  /\ script = <<>>
  /\ pc = "idle"
  /\ option = NoSeed
  /\ resolvedSeed = Num(1)
  /\ depth = 0
  /\ s = <<0, 0>>
  /\ hqs = <<>>
  /\ placed = <<>>
  /\ sats = <<>>
  /\ neutralPlacements = <<>>
  /\ frame = NoFrame
  /\ allPoints = <<>>
  /\ result = NoResult
  /\ history = <<>>
  /\ drawn = [from |-> <<0, 0>>, ks |-> <<>>]

\* the state before the first call, for the call sequences scripts
InitWith(scripts) ==
  /\ script \in scripts
  /\ pc = "idle"
  /\ option = NoSeed
  /\ resolvedSeed = Num(1)
  /\ depth = 0
  /\ s = <<0, 0>>
  /\ hqs = <<>>
  /\ placed = <<>>
  /\ sats = <<>>
  /\ neutralPlacements = <<>>
  /\ frame = NoFrame
  /\ allPoints = <<>>
  /\ result = NoResult
  /\ history = <<>>
  /\ drawn = [from |-> <<0, 0>>, ks |-> <<>>]
  /\ ReportIdle
  /\ FogIdle
Init == InitWith(CallScripts)

\* the step makes the draws ds, in order, from the current RNG state
Drawing(ds) ==
  /\ s' = StateAfter(s, ds)
  /\ drawn' = [from |-> s, ks |-> Values(ds)]

\* Math.floor(Math.random() * 1e9) || 1 (line 1012) for the value r of the floor
randomSeed(r) == IF r = 0 THEN Num(1) ELSE Num(r)

\* A caller invokes generateStartingScenario(options); lines 1009-1012 resolve the seed.
Call ==
  /\ pc = "idle"
  /\ script # <<>>
  /\ script' = Tail(script)
  /\ option' = Head(script)
  /\ IF Head(script).kind = "number"
     THEN resolvedSeed' = normalizeSeed(Head(script))
     ELSE \E r \in RandomSeeds : resolvedSeed' = randomSeed(r)
  /\ depth' = 0
  /\ pc' = "start"
  /\ UNCHANGED <<s, hqs, placed, sats, neutralPlacements, frame, allPoints, result,
                 history, drawn>>
  /\ UNCHANGED <<reportVars, fogVars>>

\* `p${i + 1}` for the 1-based i (lines 1022, 1039)
playerId(i) == "p" \o ToString(i)
\* the ring divided into one wedge too many
hqAngleExtraWedge(i, rotationOffset) == rotationOffset + ((i - 1) * 360) \div (NUM_PLAYERS + 1)
\* rotationOffset + (i * TWO_PI) / NUM_PLAYERS (line 1036), for the 1-based i, in degrees
hqAngle(i, rotationOffset) == rotationOffset + ((i - 1) * 360) \div NUM_PLAYERS
\* lines 1013-1042: the RNG is seeded, the HQs are put on the ring
Start ==
  /\ pc = "start"
  /\ LET ds == Draws(ToInt32(resolvedSeed), 1)
         rotationOffset == TurnOf(ds[1].k)
         hq(i) == LET p == polar(center, ringRadius, hqAngle(i, rotationOffset))
                  IN [x |-> p.x, y |-> p.y, id |-> playerId(i) \o "-hq", type |-> "hq",
                      ownerId |-> playerId(i)]
         ring == Tuple([i \in 1..NUM_PLAYERS |-> hq(i)])
     IN /\ s' = ds[1].s
        /\ drawn' = [from |-> ToInt32(resolvedSeed), ks |-> Values(ds)]
        /\ hqs' = ring
        /\ placed' = ring
  /\ sats' = <<>>
  /\ neutralPlacements' = <<>>
  /\ allPoints' = <<>>
  /\ frame' = [i |-> 1, sat |-> 0, satTries |-> 0]
  /\ pc' = "satellites"
  /\ UNCHANGED <<script, option, resolvedSeed, depth, result, history>>
  /\ UNCHANGED <<reportVars, fogVars>>

\* the three structures of a complete cluster (lines 1089-1106)
satellitesToPlace == << [id |-> "foundry-a", type |-> "foundry"],
                        [id |-> "foundry-b", type |-> "foundry"],
                        [id |-> "reactor", type |-> "reactor"] >>
\* every satellite a foundry
clusterPointFoundry(i, si, spot) ==
  [x |-> spot.x, y |-> spot.y, id |-> playerId(i) \o "-" \o satellitesToPlace[si].id,
   type |-> "foundry", ownerId |-> playerId(i)]
clusterPoint(i, si, spot) ==
  [x |-> spot.x, y |-> spot.y, id |-> playerId(i) \o "-" \o satellitesToPlace[si].id,
   type |-> satellitesToPlace[si].type, ownerId |-> playerId(i)]

\* only foreign structures are kept at a distance: siblings of the cluster may overlap
satelliteFitsAmongForeign(pos, r, anchor, player, found) ==
  LET enemyHqs == SelectSeq(hqs, LAMBDA hq : hq.ownerId # player)
  IN /\ ~(r < CLUSTER_DISTANCE_MIN \/ r > CLUSTER_DISTANCE_MAX)
     /\ ~\E n \in 1..Len(enemyHqs) : Closer(enemyHqs[n], pos, r + CLUSTER_FOREIGN_MARGIN)
     /\ ~\E n \in 1..Len(enemyHqs) : Closer(enemyHqs[n], pos, CROSS_PLAYER_SONAR_BUFFER)
     /\ ~\E n \in 1..Len(placed) :
           placed[n].ownerId # player /\ Closer(placed[n], pos, CLUSTER_MIN_SEPARATION)
\* siblings of the cluster are kept at a distance but may lie in the same direction
satelliteFitsAnyDirection(pos, r, anchor, player, found) ==
  LET enemyHqs == SelectSeq(hqs, LAMBDA hq : hq.ownerId # player)
  IN /\ ~(r < CLUSTER_DISTANCE_MIN \/ r > CLUSTER_DISTANCE_MAX)
     /\ ~\E n \in 1..Len(found) : Closer(found[n], pos, CLUSTER_MIN_SEPARATION)
     /\ ~\E n \in 1..Len(enemyHqs) : Closer(enemyHqs[n], pos, r + CLUSTER_FOREIGN_MARGIN)
     /\ ~\E n \in 1..Len(enemyHqs) : Closer(enemyHqs[n], pos, CROSS_PLAYER_SONAR_BUFFER)
     /\ ~\E n \in 1..Len(placed) :
           placed[n].ownerId # player /\ Closer(placed[n], pos, CLUSTER_MIN_SEPARATION)
\* the checks of lines 1062-1082 on a sampled satellite position
satelliteFits(pos, r, anchor, player, found) ==
  LET enemyHqs == SelectSeq(hqs, LAMBDA hq : hq.ownerId # player)
      angleToAnchor == Atan2(pos.y - anchor.y, pos.x - anchor.x)
      satAngle(n) == Atan2(found[n].y - anchor.y, found[n].x - anchor.x)
  IN /\ ~(r < CLUSTER_DISTANCE_MIN \/ r > CLUSTER_DISTANCE_MAX)
     /\ ~\E n \in 1..Len(found) : Closer(found[n], pos, CLUSTER_MIN_SEPARATION)
     /\ ~\E n \in 1..Len(found) :
           Abs(clampAngle(satAngle(n) - angleToAnchor)) < SAT_MIN_ANGLE_SEP
     /\ ~\E n \in 1..Len(enemyHqs) : Closer(enemyHqs[n], pos, r + CLUSTER_FOREIGN_MARGIN)
     /\ ~\E n \in 1..Len(enemyHqs) : Closer(enemyHqs[n], pos, CROSS_PLAYER_SONAR_BUFFER)
     /\ ~\E n \in 1..Len(placed) :
           placed[n].ownerId # player /\ Closer(placed[n], pos, CLUSTER_MIN_SEPARATION)

\* whatever was accepted is placed, complete cluster or not
clusterOfAccepted(i, found) ==
  Tuple([si \in 1..Len(found) |-> clusterPoint(i, si, found[si])])
\* lines 1088-1107: the structures player i gets for the accepted positions: the three of
\* a complete cluster, none otherwise
clusterOf(i, found) ==
  IF Len(found) = 3
  THEN Tuple([si \in 1..3 |-> clusterPoint(i, si, found[si])])
  ELSE <<>>

\* lines 1044-1108: per player, SAT_COUNT satellites by rejection sampling (at most 60
\* tries each); the cluster is placed only when all three were found.  One step is one
\* try, or the end of a player's turn.
Satellites ==
  /\ pc = "satellites"
  /\ IF frame.sat < SAT_COUNT
     THEN LET ds == Draws(s, 2)
              anchor == hqs[frame.i]
              baseDir == Atan2(center.y - anchor.y, center.x - anchor.x)
              off == Jitter(ds[1].k, 2 * SAT_ANGLE_SPREAD)
              r == CLUSTER_DISTANCE_MIN
                   + (((CLUSTER_DISTANCE_MAX - CLUSTER_DISTANCE_MIN) \div 10)
                      * (35 * RngModulus + 65 * ds[2].k)) \div (10 * RngModulus)
              pos == polar(anchor, r, baseDir + off)
          IN /\ Drawing(ds)
             /\ IF satelliteFits(pos, r, anchor, playerId(frame.i), sats)
                THEN /\ sats' = Append(sats, pos)
                     /\ frame' = [frame EXCEPT !.sat = @ + 1, !.satTries = 0]
                ELSE /\ sats' = sats
                     /\ frame' = IF frame.satTries + 1 < 60
                                 THEN [frame EXCEPT !.satTries = @ + 1]
                                 ELSE [frame EXCEPT !.sat = @ + 1, !.satTries = 0]
             /\ UNCHANGED <<placed, pc>>
     ELSE /\ Drawing(<<>>)
          /\ placed' = placed \o clusterOf(frame.i, sats)
          /\ sats' = <<>>
          /\ IF frame.i < NUM_PLAYERS
             THEN /\ frame' = [i |-> frame.i + 1, sat |-> 0, satTries |-> 0]
                  /\ pc' = pc
             ELSE /\ frame' = [i |-> 0, attempt |-> 0]
                  /\ pc' = "centerCluster"
  /\ UNCHANGED <<script, option, resolvedSeed, depth, hqs, neutralPlacements, allPoints,
                 result, history>>
  /\ UNCHANGED <<reportVars, fogVars>>

\* the extraCheck of placeCenterNeutral and placeOuterNeutral (lines 858-860, 886-888)
centerCheck(candidate) ==
  /\ \A n \in 1..Len(hqs) : AtLeast(candidate, hqs[n], NEUTRAL_NEAR_RADIUS + 40)
  /\ WedgeClear(candidate, hqs, 1, 1)
\* the sampler of placeCenterNeutral (lines 861-865) for its two draws
centerSample(ds) ==
  polar(center,
        randomRange(CENTER_NEUTRAL_RADIUS_RANGE[1], CENTER_NEUTRAL_RADIUS_RANGE[2], ds[1].k),
        TurnOf(ds[2].k))

\* lines 1110-1116: up to three centre neutrals, each by placeCenterNeutral (at most
\* 120 attempts).  One step is one attempt, or the end of the loop.
CenterCluster ==
  /\ pc = "centerCluster"
  /\ IF frame.i < NEUTRAL_CENTER_COUNT_RANGE.min /\ Len(neutralPlacements) < NEUTRAL_COUNT
     THEN LET ds == Draws(s, 2)
              candidate == centerSample(ds)
          IN /\ Drawing(ds)
             /\ IF centerCheck(candidate) /\ canPlaceNeutral(candidate, placed, neutralPlacements)
                THEN /\ neutralPlacements' = Append(neutralPlacements, candidate)
                     /\ frame' = [i |-> frame.i + 1, attempt |-> 0]
                ELSE /\ neutralPlacements' = neutralPlacements
                     /\ frame' = IF frame.attempt + 1 < 120
                                 THEN [frame EXCEPT !.attempt = @ + 1]
                                 ELSE [i |-> frame.i + 1, attempt |-> 0]
             /\ pc' = pc
     ELSE /\ Drawing(<<>>)
          /\ neutralPlacements' = neutralPlacements
          /\ frame' = [phase |-> "shuffle", i |-> 0, attempt |-> 0, shuffledHqs |-> <<>>,
                       backAngle |-> 0]
          /\ pc' = "backfield"
  /\ UNCHANGED <<script, option, resolvedSeed, depth, hqs, placed, sats, allPoints,
                 result, history>>
  /\ UNCHANGED <<reportVars, fogVars>>

\* lines 1118-1131 with placeBackfieldNeutral (lines 811-839): the HQs are shuffled,
\* the first BACKFIELD_COUNT of them get a backfield neutral (at most 80 attempts each)
Backfield ==
  /\ pc = "backfield"
  /\ CASE frame.phase = "shuffle" ->
            LET ds == Draws(s, Len(hqs) - 1)
            IN /\ Drawing(ds)
               /\ frame' = [frame EXCEPT !.phase = "next",
                                         !.shuffledHqs = shuffle(hqs, Values(ds))]
               /\ UNCHANGED <<neutralPlacements, pc>>
       [] frame.phase = "next" ->
            IF /\ frame.i < Min(BACKFIELD_COUNT, Len(frame.shuffledHqs))
               /\ Len(neutralPlacements) < NEUTRAL_COUNT
            THEN LET ds == Draws(s, 1)
                     hq == frame.shuffledHqs[frame.i + 1]
                     angleFromCenter == Atan2(hq.y - center.y, hq.x - center.x)
                 IN /\ Drawing(ds)
                    /\ frame' = [frame EXCEPT
                         !.phase = "try", !.attempt = 0,
                         !.backAngle = angleFromCenter + Jitter(ds[1].k, BACKFIELD_ANGLE_JITTER)]
                    /\ UNCHANGED <<neutralPlacements, pc>>
            ELSE /\ Drawing(<<>>)
                 /\ frame' = [phase |-> "head", attempt |-> 0, targetAngle |-> 0, template |-> 1]
                 /\ pc' = "fill"
                 /\ UNCHANGED neutralPlacements
       [] frame.phase = "try" ->
            LET ds == Draws(s, 2)
                hq == frame.shuffledHqs[frame.i + 1]
                radial == randomRange(BACKFIELD_RADIUS_RANGE[1], BACKFIELD_RADIUS_RANGE[2], ds[1].k)
                pos == project(hq.x, hq.y, frame.backAngle, radial, Jitter(ds[2].k, 60))
            IN /\ Drawing(ds)
               /\ IF /\ WedgeClear(pos, <<hq>> \o hqs, 1, 1)
                     /\ canPlaceNeutral(pos, placed, neutralPlacements)
                  THEN /\ neutralPlacements' = Append(neutralPlacements, pos)
                       /\ frame' = [frame EXCEPT !.phase = "next", !.i = @ + 1]
                  ELSE /\ neutralPlacements' = neutralPlacements
                       /\ frame' = IF frame.attempt + 1 < 80
                                   THEN [frame EXCEPT !.attempt = @ + 1]
                                   ELSE [frame EXCEPT !.phase = "next", !.i = @ + 1]
               /\ pc' = pc
  /\ UNCHANGED <<script, option, resolvedSeed, depth, hqs, placed, sats, allPoints,
                 result, history>>
  /\ UNCHANGED <<reportVars, fogVars>>

\* the frame improveNeutrals starts with (lines 910-911)
improveFrame(neutrals) == [iter |-> 0, bestScore |-> scoreNeutrals(neutrals, hqs)]

\* lines 1133-1154: until there are NEUTRAL_COUNT neutrals, a mid neutral on a drawn
\* angle (at most 140 attempts), else an outer one by placeOuterNeutral (lines 868-895,
\* at most 140 attempts), else the loop is left
Fill ==
  /\ pc = "fill"
  /\ CASE frame.phase = "head" ->
            IF Len(neutralPlacements) < NEUTRAL_COUNT
            THEN LET ds == Draws(s, 1)
                 IN /\ Drawing(ds)
                    /\ frame' = [frame EXCEPT !.phase = "mid", !.attempt = 0,
                                              !.targetAngle = TurnOf(ds[1].k)]
                    /\ UNCHANGED <<neutralPlacements, pc>>
            ELSE /\ Drawing(<<>>)
                 /\ frame' = improveFrame(neutralPlacements)
                 /\ pc' = "improveNeutrals"
                 /\ UNCHANGED neutralPlacements
       [] frame.phase = "mid" ->
            LET ds == Draws(s, 1)
                candidate == polar(center, randomRange(880, 1150, ds[1].k), frame.targetAngle)
            IN /\ Drawing(ds)
               /\ IF /\ \A n \in 1..Len(hqs) : AtLeast(candidate, hqs[n], NEUTRAL_NEAR_RADIUS - 30)
                     /\ canPlaceNeutral(candidate, placed, neutralPlacements)
                  THEN /\ neutralPlacements' = Append(neutralPlacements, candidate)
                       /\ frame' = [frame EXCEPT !.phase = "head"]
                  ELSE /\ neutralPlacements' = neutralPlacements
                       /\ frame' = IF frame.attempt + 1 < 140
                                   THEN [frame EXCEPT !.attempt = @ + 1]
                                   ELSE [frame EXCEPT !.phase = "template"]
               /\ pc' = pc
       [] frame.phase = "template" ->
            LET ds == Draws(s, 1)
            IN /\ Drawing(ds)
               /\ frame' = [frame EXCEPT
                    !.phase = "outer", !.attempt = 0,
                    !.template = ((ds[1].k * Len(NEUTRAL_TEMPLATES)) \div RngModulus) + 1]
               /\ UNCHANGED <<neutralPlacements, pc>>
       [] frame.phase = "outer" ->
            LET ds == Draws(s, 3)
                template == NEUTRAL_TEMPLATES[frame.template]
                radius == randomRange(template.radiusRange[1], template.radiusRange[2], ds[1].k)
                angle == TurnOf(ds[2].k) + Jitter(ds[3].k, template.angleJitter)
                candidate == polar(center, radius, angle)
            IN /\ Drawing(ds)
               /\ IF centerCheck(candidate) /\ canPlaceNeutral(candidate, placed, neutralPlacements)
                  THEN /\ neutralPlacements' = Append(neutralPlacements, candidate)
                       /\ frame' = [frame EXCEPT !.phase = "head"]
                       /\ pc' = pc
                  ELSE /\ neutralPlacements' = neutralPlacements
                       /\ IF frame.attempt + 1 < 140
                          THEN /\ frame' = [frame EXCEPT !.attempt = @ + 1]
                               /\ pc' = pc
                          ELSE /\ frame' = improveFrame(neutralPlacements)
                               /\ pc' = "improveNeutrals"
  /\ UNCHANGED <<script, option, resolvedSeed, depth, hqs, placed, sats, allPoints,
                 result, history>>
  /\ UNCHANGED <<reportVars, fogVars>>

\* sampleCandidate of improveNeutrals (lines 913-923) for the draws ds[2..]
sampleCandidate(ds) ==
  IF ds[2].k < 300000
  THEN polar(center,
             randomRange(CENTER_NEUTRAL_RADIUS_RANGE[1], CENTER_NEUTRAL_RADIUS_RANGE[2], ds[3].k),
             TurnOf(ds[4].k))
  ELSE LET template == NEUTRAL_TEMPLATES[((ds[3].k * Len(NEUTRAL_TEMPLATES)) \div RngModulus) + 1]
       IN polar(center,
                randomRange(template.radiusRange[1], template.radiusRange[2], ds[4].k),
                TurnOf(ds[5].k))

\* the proposal is taken when it scores higher
raisesScore(score, bestScore) == score > bestScore
\* score < bestScore (line 934)
lowersScore(score, bestScore) == score < bestScore

\* improveNeutrals (lines 897-940, called at 1156): 400 times a random neutral is
\* replaced by a sampled proposal when that lowers the score; the accepted proposal goes
\* to the end of the list.  One step is one iteration.
ImproveNeutrals ==
  /\ pc = "improveNeutrals"
  /\ IF frame.iter < 400
     THEN LET all == Draws(s, 5)
              ds == IF all[2].k < 300000 THEN SubSeq(all, 1, 4) ELSE all
              idx == ((ds[1].k * Len(neutralPlacements)) \div RngModulus) + 1
              proposal == sampleCandidate(ds)
              without == Without(neutralPlacements, idx)
              next == Append(without, proposal)
              score == scoreNeutrals(next, hqs)
              accepted == /\ WedgeClear(proposal, hqs, 1, 1)
                          /\ canPlaceNeutral(proposal, placed, without)
                          /\ lowersScore(score, frame.bestScore)
          IN /\ Drawing(ds)
             /\ neutralPlacements' = IF accepted THEN next ELSE neutralPlacements
             /\ frame' = [iter |-> frame.iter + 1,
                          bestScore |-> IF accepted THEN score ELSE frame.bestScore]
             /\ pc' = pc
     ELSE /\ Drawing(<<>>)
          /\ neutralPlacements' = neutralPlacements
          /\ frame' = [phase |-> "head", attempts |-> 0, t |-> 0, targetIdx |-> 1,
                       replaceIdx |-> 1, currentSpread |-> 0]
          /\ pc' = "balanceNeutralReach"
  /\ UNCHANGED <<script, option, resolvedSeed, depth, hqs, placed, sats, allPoints,
                 result, history>>
  /\ UNCHANGED <<reportVars, fogVars>>

\* the first neutral nearest to p instead of the farthest
closestIdx(neutrals, p) ==
  IF Len(neutrals) = 0 THEN 0
  ELSE CHOOSE n \in 1..Len(neutrals) :
         /\ \A m \in 1..Len(neutrals) : lengthSq(neutrals[m], p) >= lengthSq(neutrals[n], p)
         /\ \A m \in 1..(n - 1) : lengthSq(neutrals[m], p) > lengthSq(neutrals[n], p)
\* neutrals.reduce(... d > acc.best ...).idx: the first neutral farthest from p, 1-based;
\* 0 for an empty list
farthestIdx(neutrals, p) ==
  IF Len(neutrals) = 0 THEN 0
  ELSE CHOOSE n \in 1..Len(neutrals) :
         /\ \A m \in 1..Len(neutrals) : lengthSq(neutrals[m], p) <= lengthSq(neutrals[n], p)
         /\ \A m \in 1..(n - 1) : lengthSq(neutrals[m], p) < lengthSq(neutrals[n], p)
\* neutrals.reduce(... d < acc.best ...).idx: the first neutral nearest to p, 1-based
nearestIdx(neutrals, p) ==
  IF Len(neutrals) = 0 THEN 0
  ELSE CHOOSE n \in 1..Len(neutrals) :
         /\ \A m \in 1..Len(neutrals) : lengthSq(neutrals[m], p) >= lengthSq(neutrals[n], p)
         /\ \A m \in 1..(n - 1) : lengthSq(neutrals[m], p) > lengthSq(neutrals[n], p)
\* v is added to the list and arr[idx] stays
ReplaceAppending(arr, idx, v) == Append(arr, v)
\* arr[idx] = v for the 1-based idx
Replace(arr, idx, v) == [arr EXCEPT ![idx] = v]

\* balanceNeutralReach (lines 942-998, called at 1164): at most 200 times, while the
\* reach spread exceeds 120, the neutral farthest from the worst-off HQ is moved near
\* that HQ (at most 200 samples) and the move is kept only if the spread shrinks
BalanceNeutralReach ==
  /\ pc = "balanceNeutralReach"
  /\ CASE frame.phase = "head" ->
            LET sums == nearestSums(hqs, neutralPlacements)
                currentSpread == SpreadOf(sums)
                targetIdx == IndexOf(sums, SeqMax(sums))
            IN /\ Drawing(<<>>)
               /\ neutralPlacements' = neutralPlacements
               /\ IF frame.attempts < 200 /\ currentSpread > 1200
                  THEN /\ frame' = [phase |-> "try", attempts |-> frame.attempts + 1, t |-> 0,
                                    targetIdx |-> targetIdx,
                                    replaceIdx |-> Max(1, farthestIdx(neutralPlacements, hqs[targetIdx])),
                                    currentSpread |-> currentSpread]
                       /\ pc' = pc
                  ELSE /\ frame' = [fillAttempts |-> 0]
                       /\ pc' = "topUp"
       [] frame.phase = "try" ->
            LET ds == Draws(s, 2)
                candidate == polar(hqs[frame.targetIdx], randomRange(260, 720, ds[2].k),
                                   TurnOf(ds[1].k))
                moved == Replace(neutralPlacements, frame.replaceIdx, candidate)
            IN /\ Drawing(ds)
               /\ IF /\ WedgeClear(candidate, hqs, 1, 1)
                     /\ canPlaceNeutral(candidate, placed,
                                        Without(neutralPlacements, frame.replaceIdx))
                  THEN /\ neutralPlacements' =
                            IF SpreadOf(nearestSums(hqs, moved)) >= frame.currentSpread
                            THEN neutralPlacements ELSE moved
                       /\ frame' = [frame EXCEPT !.phase = "head"]
                       /\ pc' = pc
                  ELSE /\ neutralPlacements' = neutralPlacements
                       /\ IF frame.t + 1 < 200
                          THEN /\ frame' = [frame EXCEPT !.t = @ + 1]
                               /\ pc' = pc
                          ELSE /\ frame' = [fillAttempts |-> 0]
                               /\ pc' = "topUp"
  /\ UNCHANGED <<script, option, resolvedSeed, depth, hqs, placed, sats, allPoints,
                 result, history>>
  /\ UNCHANGED <<reportVars, fogVars>>

\* lines 1172-1185: while neutrals are missing, at most 600 relaxed placements anywhere
\* in the map between CENTER_BAND_RADIUS_MIN and NEUTRAL_FAR_RADIUS from the centre
TopUp ==
  /\ pc = "topUp"
  /\ IF Len(neutralPlacements) < NEUTRAL_COUNT /\ frame.fillAttempts < 600
     THEN LET ds == Draws(s, 2)
              candidate == polar(center,
                                 randomRange(CENTER_BAND_RADIUS_MIN, NEUTRAL_FAR_RADIUS, ds[2].k),
                                 TurnOf(ds[1].k))
          IN /\ Drawing(ds)
             /\ neutralPlacements' =
                  IF /\ InMap(candidate)
                     /\ WedgeClear(candidate, hqs, 1, 2)
                     /\ canPlaceNeutral(candidate, placed, neutralPlacements)
                  THEN Append(neutralPlacements, candidate)
                  ELSE neutralPlacements
             /\ frame' = [fillAttempts |-> frame.fillAttempts + 1]
             /\ pc' = pc
     ELSE /\ Drawing(<<>>)
          /\ neutralPlacements' = neutralPlacements
          /\ frame' = [pass |-> 0, h |-> 1, attempt |-> 0, replaceIdx |-> 0]
          /\ pc' = "clampNearestAccess"
  /\ UNCHANGED <<script, option, resolvedSeed, depth, hqs, placed, sats, allPoints,
                 result, history>>
  /\ UNCHANGED <<reportVars, fogVars>>

\* the sampler of lines 1209-1213, 1245-1249, 1271-1275: a point around hq
nearHqSample(hq, lo, hi, ds) == polar(hq, randomRange(lo, hi, ds[2].k), TurnOf(ds[1].k))
\* tryPlaceNeutral's acceptance (lines 665-666) of a sample that replaces neutral idx,
\* with the wedge extraCheck
replacementFits(candidate, idx) ==
  /\ WedgeClear(candidate, hqs, 1, 1)
  /\ canPlaceNeutral(candidate, placed,
                     IF idx = 0 THEN neutralPlacements ELSE Without(neutralPlacements, idx))

\* clampNearestAccess (lines 1188-1220): twice over the HQs, an HQ whose two nearest
\* neutrals sum to more than 720 gets the neutral farthest from it moved to within
\* 280..560 of it (at most 180 attempts)
ClampNearestAccess ==
  /\ pc = "clampNearestAccess"
  /\ LET hq == hqs[frame.h]
         nextHq == IF frame.h < Len(hqs)
                   THEN [pass |-> frame.pass, h |-> frame.h + 1, attempt |-> 0, replaceIdx |-> 0]
                   ELSE [pass |-> frame.pass + 1, h |-> 1, attempt |-> 0, replaceIdx |-> 0]
     IN IF frame.pass >= 2
        THEN /\ Drawing(<<>>)
             /\ neutralPlacements' = neutralPlacements
             /\ frame' = [h |-> 1, attempt |-> 0, replaceIdx |-> 0]
             /\ pc' = "personalNeutral"
        ELSE IF frame.replaceIdx = 0
        THEN /\ Drawing(<<>>)
             /\ neutralPlacements' = neutralPlacements
             /\ frame' = IF \/ NearestTwoSum(hq, neutralPlacements) <= 7200
                            \/ farthestIdx(neutralPlacements, hq) = 0
                         THEN nextHq
                         ELSE [frame EXCEPT !.replaceIdx = farthestIdx(neutralPlacements, hq)]
             /\ pc' = pc
        ELSE LET ds == Draws(s, 2)
                 candidate == nearHqSample(hq, 280, 560, ds)
             IN /\ Drawing(ds)
                /\ IF replacementFits(candidate, frame.replaceIdx)
                   THEN /\ neutralPlacements' = Replace(neutralPlacements, frame.replaceIdx, candidate)
                        /\ frame' = nextHq
                   ELSE /\ neutralPlacements' = neutralPlacements
                        /\ frame' = IF frame.attempt + 1 < 180
                                    THEN [frame EXCEPT !.attempt = @ + 1]
                                    ELSE nextHq
                /\ pc' = pc
  /\ UNCHANGED <<script, option, resolvedSeed, depth, hqs, placed, sats, allPoints,
                 result, history>>
  /\ UNCHANGED <<reportVars, fogVars>>

\* lines 1222-1252: an HQ with no neutral within 520 gets the neutral farthest from it
\* moved to within 340..520 of it (at most 200 attempts)
PersonalNeutral ==
  /\ pc = "personalNeutral"
  /\ IF frame.h > Len(hqs)
     THEN /\ Drawing(<<>>)
          /\ neutralPlacements' = neutralPlacements
          /\ frame' = [h |-> 1, attempt |-> 0, try |-> 0, replaceIdx |-> 0]
          /\ pc' = "hardClamp"
     ELSE LET hq == hqs[frame.h]
              nextHq == [h |-> frame.h + 1, attempt |-> 0, replaceIdx |-> 0]
          IN IF frame.replaceIdx = 0
             THEN /\ Drawing(<<>>)
                  /\ neutralPlacements' = neutralPlacements
                  /\ frame' =
                       IF \/ \E n \in 1..Len(neutralPlacements) : AtMost(neutralPlacements[n], hq, 520)
                          \/ farthestIdx(neutralPlacements, hq) = 0
                       THEN nextHq
                       ELSE [frame EXCEPT !.replaceIdx = farthestIdx(neutralPlacements, hq)]
                  /\ pc' = pc
             ELSE LET ds == Draws(s, 2)
                      candidate == nearHqSample(hq, 340, 520, ds)
                  IN /\ Drawing(ds)
                     /\ IF replacementFits(candidate, frame.replaceIdx)
                        THEN /\ neutralPlacements' =
                                  Replace(neutralPlacements, frame.replaceIdx, candidate)
                             /\ frame' = nextHq
                        ELSE /\ neutralPlacements' = neutralPlacements
                             /\ frame' = IF frame.attempt + 1 < 200
                                         THEN [frame EXCEPT !.attempt = @ + 1]
                                         ELSE nextHq
                     /\ pc' = pc
  /\ UNCHANGED <<script, option, resolvedSeed, depth, hqs, placed, sats, allPoints,
                 result, history>>
  /\ UNCHANGED <<reportVars, fogVars>>

\* ordered[ordered.length - 1].idx (lines 1258-1263): the last neutral farthest from p
\* (the sort is stable), 1-based; 0 for an empty list
lastFarthestIdx(neutrals, p) ==
  IF Len(neutrals) = 0 THEN 0
  ELSE CHOOSE n \in 1..Len(neutrals) :
         /\ \A m \in 1..Len(neutrals) : lengthSq(neutrals[m], p) <= lengthSq(neutrals[n], p)
         /\ \A m \in (n + 1)..Len(neutrals) : lengthSq(neutrals[m], p) < lengthSq(neutrals[n], p)

\* lines 1254-1280: per HQ up to four times, while its two nearest neutrals sum to more
\* than 700, the neutral farthest from it is moved to within 320..540 of it (at most
\* 200 attempts)
HardClamp ==
  /\ pc = "hardClamp"
  /\ IF frame.h > Len(hqs)
     THEN /\ Drawing(<<>>)
          /\ neutralPlacements' = neutralPlacements
          /\ frame' = [phase |-> "head", centerFix |-> 0, attempt |-> 0, farthestIdx |-> 0]
          /\ pc' = "centerFix"
     ELSE LET hq == hqs[frame.h]
              nextHq == [h |-> frame.h + 1, attempt |-> 0, try |-> 0, replaceIdx |-> 0]
              nextAttempt == [frame EXCEPT !.attempt = @ + 1, !.try = 0, !.replaceIdx = 0]
          IN IF frame.replaceIdx = 0
             THEN /\ Drawing(<<>>)
                  /\ neutralPlacements' = neutralPlacements
                  /\ frame' =
                       IF \/ frame.attempt >= 4
                          \/ NearestTwoSum(hq, neutralPlacements) <= 7000
                          \/ lastFarthestIdx(neutralPlacements, hq) = 0
                       THEN nextHq
                       ELSE [frame EXCEPT !.replaceIdx = lastFarthestIdx(neutralPlacements, hq)]
                  /\ pc' = pc
             ELSE LET ds == Draws(s, 2)
                      candidate == nearHqSample(hq, 320, 540, ds)
                  IN /\ Drawing(ds)
                     /\ IF replacementFits(candidate, frame.replaceIdx)
                        THEN /\ neutralPlacements' =
                                  Replace(neutralPlacements, frame.replaceIdx, candidate)
                             /\ frame' = nextAttempt
                        ELSE /\ neutralPlacements' = neutralPlacements
                             /\ frame' = IF frame.try + 1 < 200
                                         THEN [frame EXCEPT !.try = @ + 1]
                                         ELSE nextAttempt
                     /\ pc' = pc
  /\ UNCHANGED <<script, option, resolvedSeed, depth, hqs, placed, sats, allPoints,
                 result, history>>
  /\ UNCHANGED <<reportVars, fogVars>>

\* lines 1282-1304: while fewer than NEUTRAL_CENTER_COUNT_RANGE.min neutrals are
\* within CENTER_OCCUPANCY_RADIUS of the centre (at most 30 times), the neutral farthest
\* from the centre is replaced by a placeCenterNeutral result
CenterFix ==
  /\ pc = "centerFix"
  /\ LET leave == /\ frame' = [phase |-> "head", centerHigh |-> 0, t |-> 0, nearestIdx |-> 0]
                  /\ pc' = "centerHigh"
     IN IF frame.phase = "head"
        THEN /\ Drawing(<<>>)
             /\ neutralPlacements' = neutralPlacements
             /\ IF /\ centerCount(neutralPlacements) < NEUTRAL_CENTER_COUNT_RANGE.min
                   /\ frame.centerFix < 30
                THEN /\ frame' = [phase |-> "try", centerFix |-> frame.centerFix + 1,
                                  attempt |-> 0,
                                  farthestIdx |-> farthestIdx(neutralPlacements, center)]
                     /\ pc' = pc
                ELSE leave
        ELSE LET ds == Draws(s, 2)
                 candidate == centerSample(ds)
                 others == IF frame.farthestIdx = 0 THEN neutralPlacements
                           ELSE Without(neutralPlacements, frame.farthestIdx)
             IN /\ Drawing(ds)
                /\ IF centerCheck(candidate) /\ canPlaceNeutral(candidate, placed, others)
                   THEN IF frame.farthestIdx = 0
                        THEN neutralPlacements' = neutralPlacements /\ leave
                        ELSE /\ neutralPlacements' =
                                  Replace(neutralPlacements, frame.farthestIdx, candidate)
                             /\ frame' = [frame EXCEPT !.phase = "head"]
                             /\ pc' = pc
                   ELSE /\ neutralPlacements' = neutralPlacements
                        /\ IF frame.attempt + 1 < 120
                           THEN frame' = [frame EXCEPT !.attempt = @ + 1] /\ pc' = pc
                           ELSE leave
  /\ UNCHANGED <<script, option, resolvedSeed, depth, hqs, placed, sats, allPoints,
                 result, history>>
  /\ UNCHANGED <<reportVars, fogVars>>

\* a point on a ring around the centre, radius drawn first (lines 1324-1326, 1347-1349,
\* 1378-1380)
ringSample(lo, hi, ds) == polar(center, randomRange(lo, hi, ds[1].k), TurnOf(ds[2].k))

\* lines 1306-1333: while more than NEUTRAL_CENTER_COUNT_RANGE.max neutrals are within
\* CENTER_OCCUPANCY_RADIUS of the centre (at most 80 times), the one nearest to the centre
\* is moved out to 650..1300 (at most 220 samples)
CenterHigh ==
  /\ pc = "centerHigh"
  /\ LET leave == /\ frame' = [phase |-> "head", forceIdx |-> 0, t |-> 0, idx |-> 0]
                  /\ pc' = "forceOut"
     IN IF frame.phase = "head"
        THEN /\ Drawing(<<>>)
             /\ neutralPlacements' = neutralPlacements
             /\ IF /\ centerCount(neutralPlacements) > NEUTRAL_CENTER_COUNT_RANGE.max
                   /\ frame.centerHigh < 80
                   /\ nearestIdx(neutralPlacements, center) # 0
                THEN /\ frame' = [phase |-> "try", centerHigh |-> frame.centerHigh + 1, t |-> 0,
                                  nearestIdx |-> nearestIdx(neutralPlacements, center)]
                     /\ pc' = pc
                ELSE leave
        ELSE LET ds == Draws(s, 2)
                 candidate == ringSample(CENTER_OCCUPANCY_RADIUS + 200, 1300, ds)
             IN /\ Drawing(ds)
                /\ IF replacementFits(candidate, frame.nearestIdx)
                   THEN /\ neutralPlacements' =
                             Replace(neutralPlacements, frame.nearestIdx, candidate)
                        /\ frame' = [frame EXCEPT !.phase = "head"]
                        /\ pc' = pc
                   ELSE /\ neutralPlacements' = neutralPlacements
                        /\ IF frame.t + 1 < 220
                           THEN frame' = [frame EXCEPT !.t = @ + 1] /\ pc' = pc
                           ELSE leave
  /\ UNCHANGED <<script, option, resolvedSeed, depth, hqs, placed, sats, allPoints,
                 result, history>>
  /\ UNCHANGED <<reportVars, fogVars>>

\* neutrals.findIndex((n) => length(n, center) <= CENTER_OCCUPANCY_RADIUS), 1-based;
\* 0 when there is none
firstCenterIdx(neutrals) ==
  LET inside == {n \in 1..Len(neutrals) : AtMost(neutrals[n], center, CENTER_OCCUPANCY_RADIUS)}
  IN IF inside = {} THEN 0 ELSE CHOOSE n \in inside : \A m \in inside : n <= m
\* the acceptance of lines 1350-1352 and 1381-1383
outwardFits(candidate, idx) ==
  /\ canPlaceNeutral(candidate, placed, Without(neutralPlacements, idx))
  /\ InMap(candidate)

\* lines 1335-1357: while the centre is still over its maximum (at most once per
\* neutral), the first centre neutral is moved out to 650..1400 (at most 400 samples)
ForceOut ==
  /\ pc = "forceOut"
  /\ LET leave == /\ frame' = [phase |-> "head", evacGuard |-> 0, t |-> 0, idx |-> 0]
                  /\ pc' = "evacuate"
     IN IF frame.phase = "head"
        THEN /\ Drawing(<<>>)
             /\ neutralPlacements' = neutralPlacements
             /\ IF /\ centerCount(neutralPlacements) > NEUTRAL_CENTER_COUNT_RANGE.max
                   /\ frame.forceIdx < Len(neutralPlacements)
                   /\ firstCenterIdx(neutralPlacements) # 0
                THEN /\ frame' = [phase |-> "try", forceIdx |-> frame.forceIdx + 1, t |-> 0,
                                  idx |-> firstCenterIdx(neutralPlacements)]
                     /\ pc' = pc
                ELSE leave
        ELSE LET ds == Draws(s, 2)
                 candidate == ringSample(CENTER_OCCUPANCY_RADIUS + 200, 1400, ds)
             IN /\ Drawing(ds)
                /\ IF outwardFits(candidate, frame.idx)
                   THEN /\ neutralPlacements' = Replace(neutralPlacements, frame.idx, candidate)
                        /\ frame' = [frame EXCEPT !.phase = "head"]
                        /\ pc' = pc
                   ELSE /\ neutralPlacements' = neutralPlacements
                        /\ IF frame.t + 1 < 400
                           THEN frame' = [frame EXCEPT !.t = @ + 1] /\ pc' = pc
                           ELSE leave
  /\ UNCHANGED <<script, option, resolvedSeed, depth, hqs, placed, sats, allPoints,
                 result, history>>
  /\ UNCHANGED <<reportVars, fogVars>>

\* lines 1359-1388: while the centre is still over its maximum (at most 300 times), the
\* neutral nearest to the centre is moved out to 750..1400 (at most 500 samples)
Evacuate ==
  /\ pc = "evacuate"
  /\ LET leave == /\ frame' = NoFrame
                  /\ pc' = "assemble"
     IN IF frame.phase = "head"
        THEN /\ Drawing(<<>>)
             /\ neutralPlacements' = neutralPlacements
             /\ IF /\ centerCount(neutralPlacements) > NEUTRAL_CENTER_COUNT_RANGE.max
                   /\ frame.evacGuard < 300
                   /\ nearestIdx(neutralPlacements, center) # 0
                THEN /\ frame' = [phase |-> "try", evacGuard |-> frame.evacGuard + 1, t |-> 0,
                                  idx |-> nearestIdx(neutralPlacements, center)]
                     /\ pc' = pc
                ELSE leave
        ELSE LET ds == Draws(s, 2)
                 candidate == ringSample(CENTER_OCCUPANCY_RADIUS + 300, 1400, ds)
             IN /\ Drawing(ds)
                /\ IF outwardFits(candidate, frame.idx)
                   THEN /\ neutralPlacements' = Replace(neutralPlacements, frame.idx, candidate)
                        /\ frame' = [frame EXCEPT !.phase = "head"]
                        /\ pc' = pc
                   ELSE /\ neutralPlacements' = neutralPlacements
                        /\ IF frame.t + 1 < 500
                           THEN frame' = [frame EXCEPT !.t = @ + 1] /\ pc' = pc
                           ELSE leave
  /\ UNCHANGED <<script, option, resolvedSeed, depth, hqs, placed, sats, allPoints,
                 result, history>>
  /\ UNCHANGED <<reportVars, fogVars>>

(***************************************************************************)
(* Assembly and normalization (lines 1390-1432)                            *)
(***************************************************************************)

targetMargin == (Min(MAP_WIDTH, MAP_HEIGHT) * TARGET_MARGIN_RATIO) \div 100
halfWidth == MAP_WIDTH \div 2 - targetMargin
halfHeight == MAP_HEIGHT \div 2 - targetMargin
\* Math.min(1, halfWidth / maxAbsX, halfHeight / maxAbsY) as the fraction num / den
scaleOf(pts) ==
  LET maxAbsX == SeqMax(<<0>> \o Tuple([n \in 1..Len(pts) |-> Abs(pts[n].x - center.x)]))
      maxAbsY == SeqMax(<<0>> \o Tuple([n \in 1..Len(pts) |-> Abs(pts[n].y - center.y)]))
      byX == IF maxAbsX # 0 /\ halfWidth < maxAbsX
             THEN [num |-> halfWidth, den |-> maxAbsX] ELSE [num |-> 1, den |-> 1]
  IN IF maxAbsY # 0 /\ halfHeight * byX.den < byX.num * maxAbsY
     THEN [num |-> halfHeight, den |-> maxAbsY] ELSE byX
\* p.x * scale + center.x for the relative coordinate d, rounded to the grid
scaled(d, scale, c) == c + (2 * d * scale.num + scale.den) \div (2 * scale.den)
normalize(pts) ==
  LET scale == scaleOf(pts)
  IN Tuple([n \in 1..Len(pts) |->
       [pts[n] EXCEPT !.x = scaled(pts[n].x - center.x, scale, center.x),
                      !.y = scaled(pts[n].y - center.y, scale, center.y)]])
\* lines 1390-1400: the first NEUTRAL_COUNT placements become neutral structures
neutralsOf(placements, neutralTypes) ==
  Tuple([idx \in 1..Min(NEUTRAL_COUNT, Len(placements)) |->
    [x |-> placements[idx].x, y |-> placements[idx].y,
     id |-> "neutral-" \o ToString(idx - 1),
     type |-> neutralTypes[((idx - 1) % Len(neutralTypes)) + 1], ownerId |-> ""]])

\* the views of allPoints taken at lines 1435-1438
normalizedHqs(pts) == SelectSeq(pts, LAMBDA p : p.ownerId # "" /\ p.type = "hq")
normalizedNeutrals(pts) == SelectSeq(pts, LAMBDA p : p.ownerId = "")
normalizedPlayerStructures(pts) == SelectSeq(pts, LAMBDA p : p.ownerId # "")
\* the idx-th point of pts is moved to pos, neutral or not
MovePoint(pts, idx, pos) == [pts EXCEPT ![idx].x = pos.x, ![idx].y = pos.y]
\* the idx-th neutral of pts is moved to pos (neutrals follow the player structures)
MoveNeutral(pts, idx, pos) ==
  LET at == Len(normalizedPlayerStructures(pts)) + idx
  IN [pts EXCEPT ![at].x = pos.x, ![at].y = pos.y]
\* lines 1461-1464 and 1565-1568
clampToMap(pts) ==
  Tuple([n \in 1..Len(pts) |-> [pts[n] EXCEPT !.x = clamp(pts[n].x, 0, MAP_WIDTH),
                                               !.y = clamp(pts[n].y, 0, MAP_HEIGHT)]])

Assemble ==
  /\ pc = "assemble"
  /\ LET ds == Draws(s, Len(NEUTRAL_TYPE_POOL) - 1)
         neutralTypes == shuffle(NEUTRAL_TYPE_POOL, Values(ds))
     IN /\ Drawing(ds)
        /\ allPoints' = normalize(placed \o neutralsOf(neutralPlacements, neutralTypes))
  /\ frame' = [iter |-> 0]
  /\ pc' = "rebalanceNeutrals"
  /\ UNCHANGED <<script, option, resolvedSeed, depth, hqs, placed, sats, neutralPlacements,
                 result, history>>
  /\ UNCHANGED <<reportVars, fogVars>>

(***************************************************************************)
(* neutralRebalancer.ts; spreads and isolation ranges in sixtieths of a    *)
(* unit, so that the averages of lines 59 and 68 are exact                 *)
(***************************************************************************)

\* the options with half the limit on the neutral spread
rebalanceOptsHalfSpread ==
  [neutralSpreadLimit |-> 160 * 60, isolationRangeLimit |-> 300 * 60,
   centerRadius |-> CENTER_OCCUPANCY_RADIUS,
   maxCenterCount |-> NEUTRAL_CENTER_COUNT_RANGE.max,
   minNeutralSeparation |-> 150, maxDistanceToCenter |-> 1600,
   maxIterations |-> 800]
\* the options of the call at lines 1444-1453, the limits in sixtieths
rebalanceOpts == [neutralSpreadLimit |-> 320 * 60, isolationRangeLimit |-> 300 * 60,
                  centerRadius |-> CENTER_OCCUPANCY_RADIUS,
                  maxCenterCount |-> NEUTRAL_CENTER_COUNT_RANGE.max,
                  minNeutralSeparation |-> 150, maxDistanceToCenter |-> 1600,
                  maxIterations |-> 800]
\* per HQ, the distances to its nearest neutrals in ascending order (d1, d2 of lines
\* 23-33; ndists[0..2] of lines 64-67), in tenths
nearestNeutralDists(hqPts, neutrals) ==
  Tuple([h \in 1..Len(hqPts) |-> NearestThree(hqPts[h], neutrals)])
nearestTwoSumsByPlayer(ndists) ==
  Tuple([h \in 1..Len(ndists) |->
    LET d == ndists[h]
    IN IF Len(d) = 0 THEN 2 * 999990 ELSE IF Len(d) = 1 THEN 2 * d[1] ELSE d[1] + d[2]])
neutralSpreadMetric(ndists) ==
  LET sums == nearestTwoSumsByPlayer(ndists)
  IN [perPlayer |-> sums, spread |-> 6 * SpreadOf(sums)]
\* enemyAvg of lines 49-60
enemyAvg(hqPts) ==
  LET avg(e) == LET e1 == IF Len(e) > 0 THEN e[1] ELSE 999990
                    e2 == IF Len(e) > 1 THEN e[2] ELSE e1
                IN 3 * (e1 + e2)
  IN Tuple([i \in 1..Len(hqPts) |-> avg(NearestThree(hqPts[i], Without(hqPts, i)))])
\* the scores with the two nearest neutrals only
isolationScoresTwoNeutrals(ndists, enemy) ==
  Tuple([i \in 1..Len(ndists) |->
    LET nd == ndists[i]
        n1 == IF Len(nd) > 0 THEN nd[1] ELSE 999990
        n2 == IF Len(nd) > 1 THEN nd[2] ELSE n1
    IN 3 * (n1 + n2) + enemy[i]])
\* scores of lines 62-71
isolationScoresByPlayer(ndists, enemy) ==
  Tuple([i \in 1..Len(ndists) |->
    LET nd == ndists[i]
        n1 == IF Len(nd) > 0 THEN nd[1] ELSE 999990
        n2 == IF Len(nd) > 1 THEN nd[2] ELSE n1
        n3 == IF Len(nd) > 2 THEN nd[3] ELSE n2
    IN 2 * (n1 + n2 + n3) + enemy[i]])
isolationRangeMetric(ndists, enemy) ==
  LET scores == isolationScoresByPlayer(ndists, enemy)
  IN [perPlayer |-> scores, range |-> SpreadOf(scores)]
hasMinSeparation(neutrals, idxToMove, newPos, allStructures, minSep) ==
  /\ \A i \in 1..Len(neutrals) : i = idxToMove \/ AtLeast(newPos, neutrals[i], minSep)
  /\ \A n \in 1..Len(allStructures) : AtLeast(newPos, allStructures[n], minSep)
overagePenalty(spreadValue, isoValue) ==
  Max(0, spreadValue - rebalanceOpts.neutralSpreadLimit)
  + Max(0, isoValue - rebalanceOpts.isolationRangeLimit)
isCenterNeutral(p) == AtMost(p, center, rebalanceOpts.centerRadius)
innerRadius == Max(rebalanceOpts.minNeutralSeparation + 40, 200)
outerRadius == innerRadius + 320

NoMove == [some |-> FALSE]
\* the locals of one iteration of the loop of lines 155-276
iteration(hqPts, neutrals, allStructures, iter) ==
  LET target(enemy, spreadMetric, isoMetric) ==
        LET spreadOver == spreadMetric.spread - rebalanceOpts.neutralSpreadLimit
            isoOver == isoMetric.range - rebalanceOpts.isolationRangeLimit
            targetSpread == spreadOver >= isoOver
            perPlayer == IF targetSpread THEN spreadMetric.perPlayer ELSE isoMetric.perPlayer
            allowCenterMoves == spreadOver > 80 * 60 \/ 2 * iter > rebalanceOpts.maxIterations
            free == {i \in 1..Len(neutrals) : allowCenterMoves \/ ~isCenterNeutral(neutrals[i])}
            move(targetHQ, movable) ==
              LET farthest == {i \in movable : \A j \in movable :
                                 lengthSq(targetHQ, neutrals[j]) <= lengthSq(targetHQ, neutrals[i])}
              IN [hqPts |-> hqPts, neutrals |-> neutrals, allStructures |-> allStructures,
                  enemy |-> enemy, spread |-> spreadMetric.spread, isoRange |-> isoMetric.range,
                  penalty |-> overagePenalty(spreadMetric.spread, isoMetric.range),
                  centerCount |->
                    Cardinality({i \in 1..Len(neutrals) : isCenterNeutral(neutrals[i])}),
                  targetSpread |-> targetSpread, targetHQ |-> targetHQ,
                  idxToMove |-> CHOOSE i \in farthest : \A j \in farthest : i <= j,
                  towardCenterAngle |->
                    Atan2(targetHQ.y - center.y, targetHQ.x - center.x) + 180]
        IN move(hqPts[IndexOf(perPlayer, SeqMax(perPlayer))],
                IF free = {} THEN 1..Len(neutrals) ELSE free)
      measured(enemy, ndists) ==
        target(enemy, neutralSpreadMetric(ndists), isolationRangeMetric(ndists, enemy))
  IN measured(enemyAvg(hqPts), nearestNeutralDists(hqPts, neutrals))

\* as considerCandidate, an acceptable candidate replacing the best move whatever its penalty
considerCandidateLatest(candidate, it, bestMove) ==
  LET oldPos == it.neutrals[it.idxToMove]
      nextCenterCount == it.centerCount - (IF isCenterNeutral(oldPos) THEN 1 ELSE 0)
                         + (IF isCenterNeutral(candidate) THEN 1 ELSE 0)
      judged(newSpread, newIso, newPenalty) ==
        LET targetImproved ==
              IF it.targetSpread THEN newSpread < it.spread ELSE newIso < it.isoRange
            nonTargetWithinLimit == IF it.targetSpread
                                    THEN newIso <= rebalanceOpts.isolationRangeLimit
                                    ELSE newSpread <= rebalanceOpts.neutralSpreadLimit
            acceptable == \/ newPenalty < it.penalty
                          \/ newPenalty = it.penalty /\ targetImproved /\ nonTargetWithinLimit
            betterThanBest == TRUE
        IN IF acceptable /\ betterThanBest
           THEN [some |-> TRUE, candidate |-> candidate, spread |-> newSpread,
                 range |-> newIso, penalty |-> newPenalty]
           ELSE bestMove
      measured(newSpread, newIso) == judged(newSpread, newIso, overagePenalty(newSpread, newIso))
      moved(ndists) == measured(neutralSpreadMetric(ndists).spread,
                                isolationRangeMetric(ndists, it.enemy).range)
  IN IF \/ ~AtMost(candidate, center, rebalanceOpts.maxDistanceToCenter)
        \/ ~InMap(candidate)
        \/ ~hasMinSeparation(it.neutrals, it.idxToMove, candidate, it.allStructures,
                             rebalanceOpts.minNeutralSeparation)
        \/ nextCenterCount > rebalanceOpts.maxCenterCount
     THEN bestMove
     ELSE moved(nearestNeutralDists(it.hqPts,
                                    [it.neutrals EXCEPT ![it.idxToMove] = candidate]))
\* considerCandidate (lines 189-230): the best move after the candidate was considered
considerCandidate(candidate, it, bestMove) ==
  LET oldPos == it.neutrals[it.idxToMove]
      nextCenterCount == it.centerCount - (IF isCenterNeutral(oldPos) THEN 1 ELSE 0)
                         + (IF isCenterNeutral(candidate) THEN 1 ELSE 0)
      judged(newSpread, newIso, newPenalty) ==
        LET targetImproved ==
              IF it.targetSpread THEN newSpread < it.spread ELSE newIso < it.isoRange
            nonTargetWithinLimit == IF it.targetSpread
                                    THEN newIso <= rebalanceOpts.isolationRangeLimit
                                    ELSE newSpread <= rebalanceOpts.neutralSpreadLimit
            acceptable == \/ newPenalty < it.penalty
                          \/ newPenalty = it.penalty /\ targetImproved /\ nonTargetWithinLimit
            betterThanBest ==
              \/ ~bestMove.some
              \/ newPenalty < bestMove.penalty
              \/ /\ newPenalty = bestMove.penalty
                 /\ IF it.targetSpread THEN newSpread < bestMove.spread
                    ELSE newIso < bestMove.range
        IN IF acceptable /\ betterThanBest
           THEN [some |-> TRUE, candidate |-> candidate, spread |-> newSpread,
                 range |-> newIso, penalty |-> newPenalty]
           ELSE bestMove
      measured(newSpread, newIso) == judged(newSpread, newIso, overagePenalty(newSpread, newIso))
      moved(ndists) == measured(neutralSpreadMetric(ndists).spread,
                                isolationRangeMetric(ndists, it.enemy).range)
  IN IF \/ ~AtMost(candidate, center, rebalanceOpts.maxDistanceToCenter)
        \/ ~InMap(candidate)
        \/ ~hasMinSeparation(it.neutrals, it.idxToMove, candidate, it.allStructures,
                             rebalanceOpts.minNeutralSeparation)
        \/ nextCenterCount > rebalanceOpts.maxCenterCount
     THEN bestMove
     ELSE moved(nearestNeutralDists(it.hqPts,
                                    [it.neutrals EXCEPT ![it.idxToMove] = candidate]))

\* samplePosNearHQ (lines 137-143): the angle is drawn first, then the radius
samplePosNearHQ(it, kAngle, kRadius) ==
  polar(it.targetHQ, randomRange(innerRadius, outerRadius, kRadius),
        it.towardCenterAngle + (((120 * kAngle) \div RngModulus) - 60))
\* lines 232-235: up to 12 samples, stopping at a move without penalty
RECURSIVE sampleMoves(_, _, _, _)
sampleMoves(it, ds, attempt, bestMove) ==
  IF attempt >= 12 \/ (bestMove.some /\ bestMove.penalty = 0)
  THEN [bestMove |-> bestMove, attempts |-> attempt]
  ELSE LET considered ==
             considerCandidate(samplePosNearHQ(it, ds[2 * attempt + 1].k, ds[2 * attempt + 2].k),
                               it, bestMove)
       IN CHOOSE out \in {sampleMoves(it, ds, attempt + 1, best) : best \in {considered}} : TRUE
\* lines 237-259: the fixed grid tried when no sample was acceptable
fallbackAngles == <<-90, -60, -30, 0, 30, 60, 90>>
fallbackRadii == <<innerRadius + 20, innerRadius + 140, innerRadius + 260, innerRadius + 380>>
RECURSIVE fallbackMoves(_, _, _)
fallbackMoves(it, n, bestMove) ==
  IF n > Len(fallbackAngles) * Len(fallbackRadii) THEN bestMove
  ELSE LET considered ==
             considerCandidate(polar(it.targetHQ, fallbackRadii[((n - 1) % Len(fallbackRadii)) + 1],
                                     it.towardCenterAngle
                                     + fallbackAngles[((n - 1) \div Len(fallbackRadii)) + 1]),
                               it, bestMove)
       IN CHOOSE out \in {fallbackMoves(it, n + 1, best) : best \in {considered}} : TRUE

\* rebalanceNeutrals (lines 111-282) on the normalized points (lines 1435-1458), then the
\* clamp of lines 1461-1464.  One step is one iteration of the loop, or the return.
RebalanceNeutrals ==
  /\ pc = "rebalanceNeutrals"
  /\ LET return == /\ Drawing(<<>>)
                   /\ allPoints' = clampToMap(allPoints)
                   /\ frame' = [phase |-> "head", centerEvac |-> 0, t |-> 0, idx |-> 0]
                   /\ pc' = "centerEvac"
         within(it) == /\ it.spread <= rebalanceOpts.neutralSpreadLimit
                       /\ it.isoRange <= rebalanceOpts.isolationRangeLimit
         apply(it, ds, sampled, bestMove) ==
           /\ Drawing(SubSeq(ds, 1, 2 * sampled.attempts))
           /\ allPoints' = IF bestMove.some
                           THEN MoveNeutral(allPoints, it.idxToMove, bestMove.candidate)
                           ELSE allPoints
           /\ frame' = [iter |-> frame.iter + 1]
           /\ pc' = pc
         choose(it, ds, sampled) ==
           apply(it, ds, sampled, IF sampled.bestMove.some THEN sampled.bestMove
                                  ELSE fallbackMoves(it, 1, NoMove))
         sample(it, ds) == choose(it, ds, sampleMoves(it, ds, 0, NoMove))
         loop(it) == IF within(it) \/ frame.iter >= rebalanceOpts.maxIterations
                     THEN return
                     ELSE sample(it, Draws(s, 24))
     IN IF Len(normalizedHqs(allPoints)) = 0 \/ Len(normalizedNeutrals(allPoints)) = 0
        THEN return
        ELSE loop(iteration(normalizedHqs(allPoints), normalizedNeutrals(allPoints),
                            normalizedPlayerStructures(allPoints), frame.iter))
  /\ UNCHANGED <<script, option, resolvedSeed, depth, hqs, placed, sats, neutralPlacements,
                 result, history>>
  /\ UNCHANGED <<reportVars, fogVars>>

\* the index of the neutral nearest to / farthest from the centre, as the reduce calls of
\* lines 1472-1479 and 1579-1585 find it: the first among equals; 0 when there is none
nearestToCenter(neutrals) ==
  LET best == {i \in 1..Len(neutrals) :
                 \A j \in 1..Len(neutrals) : lengthSq(neutrals[i], center) <= lengthSq(neutrals[j], center)}
  IN IF best = {} THEN 0 ELSE CHOOSE i \in best : \A j \in best : i <= j
farthestFromCenter(neutrals) ==
  LET best == {i \in 1..Len(neutrals) :
                 \A j \in 1..Len(neutrals) : lengthSq(neutrals[i], center) >= lengthSq(neutrals[j], center)}
  IN IF best = {} THEN 0 ELSE CHOOSE i \in best : \A j \in best : i <= j

\* lines 1466-1502: while more than maxCenter neutrals are in the centre (at most 300
\* times), the one nearest to the centre is moved out to 690..1400 (at most 300 samples)
CenterEvac ==
  /\ pc = "centerEvac"
  /\ LET neutrals == normalizedNeutrals(allPoints)
         leave == /\ frame' = [guard |-> 0]
                  /\ pc' = "finalSpread"
     IN IF frame.phase = "head"
        THEN /\ Drawing(<<>>)
             /\ allPoints' = allPoints
             /\ IF /\ centerCount(neutrals) > NEUTRAL_CENTER_COUNT_RANGE.max
                   /\ frame.centerEvac < 300
                   /\ nearestToCenter(neutrals) # 0
                THEN /\ frame' = [phase |-> "try", centerEvac |-> frame.centerEvac + 1, t |-> 0,
                                  idx |-> nearestToCenter(neutrals)]
                     /\ pc' = pc
                ELSE leave
        ELSE LET ds == Draws(s, 2)
                 candidate == ringSample(CENTER_OCCUPANCY_RADIUS + 240, 1400, ds)
                 others == normalizedPlayerStructures(allPoints) \o Without(neutrals, frame.idx)
             IN /\ Drawing(ds)
                /\ IF /\ \A n \in 1..Len(others) :
                           AtLeast(others[n], candidate, NEUTRAL_MIN_SEPARATION)
                      /\ AtMost(candidate, center, 1600)
                      /\ InMap(candidate)
                   THEN /\ allPoints' = MoveNeutral(allPoints, frame.idx, candidate)
                        /\ frame' = [frame EXCEPT !.phase = "head"]
                        /\ pc' = pc
                   ELSE /\ allPoints' = allPoints
                        /\ IF frame.t + 1 < 300
                           THEN frame' = [frame EXCEPT !.t = @ + 1] /\ pc' = pc
                           ELSE leave
  /\ UNCHANGED <<script, option, resolvedSeed, depth, hqs, placed, sats, neutralPlacements,
                 result, history>>
  /\ UNCHANGED <<reportVars, fogVars>>

\* computeNeutralSpread (lines 1503-1512), in tenths
computeNeutralSpread(pts) == SpreadOf(nearestSums(normalizedHqs(pts), normalizedNeutrals(pts)))
\* the grid of lines 1530-1531 and 1552-1558, in the order the loops visit it
spreadAngles == <<-90, -60, -30, 0, 30, 60, 90>>
spreadRadii == <<200, 320, 440, 560>>
\* the best move of one pass of the loop of lines 1526-1564: consider (lines 1534-1550)
\* keeps the first candidate of the lowest spread
bestSpreadMove(pts) ==
  LET hqPts == normalizedHqs(pts)
      neutrals == normalizedNeutrals(pts)
      players == normalizedPlayerStructures(pts)
      perMove == Len(spreadAngles) * Len(spreadRadii)
      moveIdx(n) == ((n - 1) \div perMove) + 1
      considered(c, n) == /\ InMap(c)
                          /\ ~\E p \in 1..Len(players) : Closer(players[p], c, 140)
                          /\ ~\E i \in 1..Len(neutrals) :
                                 i # moveIdx(n) /\ Closer(neutrals[i], c, 140)
      \* the spread after the move of a neutral to c; -1 when c is not considered
      spreadAfter(c, n) ==
        IF considered(c, n)
        THEN SpreadOf(nearestSums(hqPts, [neutrals EXCEPT ![moveIdx(n)] = c]))
        ELSE -1
      around(targetHQ, baseAngle) ==
        LET candidate(n) ==
              polar(targetHQ, spreadRadii[((n - 1) % Len(spreadRadii)) + 1],
                    baseAngle + spreadAngles[(((n - 1) % perMove) \div Len(spreadRadii)) + 1])
            chosen(best, lowest) ==
              [some |-> TRUE, idx |-> moveIdx(best), pos |-> candidate(best), spread |-> lowest]
            first(spread, lowest) == chosen(IndexOf(spread, lowest), lowest)
            best(spread) == IF \A n \in 1..Len(spread) : spread[n] = -1 THEN NoMove
                            ELSE first(spread, SeqMin(SelectSeq(spread, LAMBDA v : v # -1)))
        IN best(Tuple([n \in 1..(Len(neutrals) * perMove) |-> spreadAfter(candidate(n), n)]))
      toward(targetHQ) ==
        around(targetHQ, Atan2(center.y - targetHQ.y, center.x - targetHQ.x))
      worst(sums) == toward(hqPts[IndexOf(sums, SeqMax(sums))])
  IN worst(nearestSums(hqPts, neutrals))

\* lines 1514-1570: while the neutral reach spread is above 350 (at most 25 times) the
\* best grid move is applied, if it lowers the spread.  One step is one pass of the loop,
\* or the exit with the clamp of lines 1565-1568.
FinalSpread ==
  /\ pc = "finalSpread"
  /\ LET leave(guard) == /\ allPoints' = IF guard > 0 THEN clampToMap(allPoints) ELSE allPoints
                         /\ frame' = [phase |-> "head", centerShortGuard |-> 0, t |-> 0, idx |-> 0]
                         /\ pc' = "centerShort"
         pass(current, bestMove) ==
           IF current > 3500 /\ frame.guard < 25
           THEN IF ~bestMove.some \/ bestMove.spread >= current
                THEN leave(frame.guard + 1)
                ELSE /\ allPoints' = MoveNeutral(allPoints, bestMove.idx, bestMove.pos)
                     /\ frame' = [guard |-> frame.guard + 1]
                     /\ pc' = pc
           ELSE leave(frame.guard)
     IN pass(computeNeutralSpread(allPoints), bestSpreadMove(allPoints))
  /\ Drawing(<<>>)
  /\ UNCHANGED <<script, option, resolvedSeed, depth, hqs, placed, sats, neutralPlacements,
                 result, history>>
  /\ UNCHANGED <<reportVars, fogVars>>

\* lines 1572-1601: while fewer than NEUTRAL_CENTER_COUNT_RANGE.min neutrals are in the
\* centre (at most 60 times), the neutral farthest from the centre is moved onto the
\* centre ring 220..420 (at most 180 samples)
CenterShort ==
  /\ pc = "centerShort"
  /\ LET neutrals == normalizedNeutrals(allPoints)
         players == normalizedPlayerStructures(allPoints)
         leave == /\ frame' = NoFrame
                  /\ pc' = "build"
     IN IF frame.phase = "head"
        THEN /\ Drawing(<<>>)
             /\ allPoints' = allPoints
             /\ IF /\ centerCount(neutrals) < NEUTRAL_CENTER_COUNT_RANGE.min
                   /\ frame.centerShortGuard < 60
                   /\ farthestFromCenter(neutrals) # 0
                THEN /\ frame' = [phase |-> "try", centerShortGuard |-> frame.centerShortGuard + 1,
                                  t |-> 0, idx |-> farthestFromCenter(neutrals)]
                     /\ pc' = pc
                ELSE leave
        ELSE LET ds == Draws(s, 2)
                 candidate == ringSample(CENTER_NEUTRAL_RADIUS_RANGE[1],
                                         CENTER_NEUTRAL_RADIUS_RANGE[2], ds)
             IN /\ Drawing(ds)
                /\ IF /\ InMap(candidate)
                      /\ ~\E p \in 1..Len(players) : Closer(players[p], candidate, 140)
                      /\ ~\E i \in 1..Len(neutrals) :
                             i # frame.idx /\ Closer(neutrals[i], candidate, 140)
                   THEN /\ allPoints' = MoveNeutral(allPoints, frame.idx, candidate)
                        /\ frame' = [frame EXCEPT !.phase = "head"]
                        /\ pc' = pc
                   ELSE /\ allPoints' = allPoints
                        /\ IF frame.t + 1 < 180
                           THEN frame' = [frame EXCEPT !.t = @ + 1] /\ pc' = pc
                           ELSE leave
  /\ UNCHANGED <<script, option, resolvedSeed, depth, hqs, placed, sats, neutralPlacements,
                 result, history>>
  /\ UNCHANGED <<reportVars, fogVars>>

(***************************************************************************)
(* Building the structures and the final count check (lines 1603-1670)     *)
(***************************************************************************)

PLAYER_COLORS == <<"#dc3545", "#28a745", "#17a2b8", "#ffc107", "#6f42c1">>
NEUTRAL_COLORS == <<"#969aa6", "#b0b4b8">>
\* the entries of outpost-names.txt, by their line number, as read
OUTPOST_NAMES == Tuple([n \in 1..OutpostNameCount |-> [name |-> n, upper |-> FALSE]])
toUpperCase(w) == [w EXCEPT !.upper = TRUE]
players == Tuple([i \in 1..Len(PLAYER_COLORS) |->
             [id |-> playerId(i), name |-> "Player " \o ToString(i), color |-> PLAYER_COLORS[i]]])
activePlayerIndex == 0
undefined == [defined |-> FALSE]
\* parseInt(p.ownerId.slice(1)) - 1, as a 1-based index
playerIdx(ownerId) == CHOOSE i \in 1..Len(players) : players[i].id = ownerId

\* a name index that is not reset between calls
nextLabelShared(n, names) ==
  toUpperCase(names[((n - 1 + 30 * Len(history)) % Len(names)) + 1])
\* nextLabel (lines 1605-1607) at the n-th call of a pass: names[nameIndex++ % names.length]
nextLabel(n, names) == toUpperCase(names[((n - 1) % Len(names)) + 1])
\* the structure of lines 1616-1628 (an owned point) or 1636-1648 (a neutral), the n-th
\* one pushed, at the position x, y
structureAt(p, x, y, n, names) ==
  [id |-> p.id, type |-> p.type, x |-> x, y |-> y,
   ownerId |-> p.ownerId,
   label |-> nextLabel(n, names),
   playerColor |-> IF p.ownerId # "" THEN players[playerIdx(p.ownerId)].color
                   ELSE NEUTRAL_COLORS[((n - 1) % Len(NEUTRAL_COLORS)) + 1],
   size |-> sizeByType[p.type],
   droneCount |-> IF p.ownerId # "" THEN 40 ELSE 0,
   droneCapacity |-> IF p.type = "foundry" THEN 100
                     ELSE IF p.ownerId = "" \/ p.type = "reactor" THEN 150 ELSE 200,
   droneGenerationRate |-> IF p.type = "foundry" THEN [defined |-> TRUE, value |-> 3]
                           ELSE undefined]
\* x: p.y, y: p.x
structureOfTransposed(p, n, names) == structureAt(p, p.y, p.x, n, names)
\* x: p.x, y: p.y (lines 1619-1620, 1639-1640)
structureOf(p, n, names) == structureAt(p, p.x, p.y, n, names)
buildStructures(pts, names) ==
  LET ordered == normalizedPlayerStructures(pts) \o normalizedNeutrals(pts)
  IN Tuple([n \in 1..Len(ordered) |-> structureOf(ordered[n], n, names)])
owned(structures) == SelectSeq(structures, LAMBDA st : st.ownerId # "")
unowned(structures) == SelectSeq(structures, LAMBDA st : st.ownerId = "")

\* lines 1603-1670: the names are shuffled, the structures are built, and the counts are
\* checked.  On a mismatch the function calls itself with resolvedSeed + 1 and returns
\* what that call returns; the nested call resolves its seed as every call does.  A call
\* for which the stack has no room left throws a RangeError, which no frame catches.
Build ==
  /\ pc = "build"
  /\ LET pool == IF Len(OUTPOST_NAMES) > 0 THEN OUTPOST_NAMES
                 ELSE <<[name |-> 0, upper |-> FALSE]>>
         ds == Draws(s, Len(pool) - 1)
         names == shuffle(pool, Values(ds))
         structures == buildStructures(allPoints, names)
         retrySeed == retrySeedOf(resolvedSeed)
         returned == [kind |-> "scenario", players |-> players, structures |-> structures,
                      activePlayerIndex |-> activePlayerIndex]
         thrown == [kind |-> "RangeError"]
     IN /\ Drawing(ds)
        /\ IF Len(owned(structures)) # 20 \/ Len(unowned(structures)) # 10
           THEN IF depth < MaxStackDepth
                THEN /\ resolvedSeed' = normalizeSeed(Seed(FALSE, retrySeed, FALSE))
                     /\ depth' = depth + 1
                     /\ pc' = "start"
                     /\ UNCHANGED <<result, history>>
                ELSE /\ result' = thrown
                     /\ history' = Append(history, <<option, thrown>>)
                     /\ pc' = "idle"
                     /\ UNCHANGED <<resolvedSeed, depth>>
           ELSE /\ result' = returned
                /\ history' = Append(history, <<option, returned>>)
                /\ pc' = "idle"
                /\ UNCHANGED <<resolvedSeed, depth>>
  /\ frame' = NoFrame
  /\ UNCHANGED <<script, option, hqs, placed, sats, neutralPlacements, allPoints>>
  /\ UNCHANGED <<reportVars, fogVars>>

Next ==
  \/ Call
  \/ Start
  \/ Satellites
  \/ CenterCluster
  \/ Backfield
  \/ Fill
  \/ ImproveNeutrals
  \/ BalanceNeutralReach
  \/ TopUp
  \/ ClampNearestAccess
  \/ PersonalNeutral
  \/ HardClamp
  \/ CenterFix
  \/ CenterHigh
  \/ ForceOut
  \/ Evacuate
  \/ Assemble
  \/ RebalanceNeutrals
  \/ CenterEvac
  \/ FinalSpread
  \/ CenterShort
  \/ Build

Spec == Init /\ [][Next]_vars
\* the same program called with a seed and then with the seed's normal form
InitSeeds == InitWith(SeedScripts)
SpecSeeds == InitSeeds /\ [][Next]_vars
\* the same program called with the seed 2^53
InitRetry == InitWith(RetryScripts)
SpecRetry == InitRetry /\ [][Next]_vars
\* the same program called with a seed that exhausts the rebalancer
InitStuck == InitWith(StuckScripts)
SpecStuck == InitStuck /\ [][Next]_vars

(***************************************************************************)
(* The fairness report (fairnessReport.ts lines 1-460).  Numbers are held  *)
(* in tenths; Infinity, -Infinity and NaN are three values outside the     *)
(* range of the tenths that occur.                                         *)
(***************************************************************************)
Infinity == 2000000000
NaN == 2000000001
\* Number.isFinite
isFinite(value) == value \notin {Infinity, NegInfinity, NaN}
\* a seed that is a number, and the seed null
seedOf(n) == [null |-> FALSE, n |-> n]
null == [null |-> TRUE, n |-> 0]

\* STAT_CONFIG, in the order of its keys (lines 112-138)
STAT_CONFIG == <<
  [key |-> "adjacentRange", reducer |-> "max"],
  [key |-> "hqRadiusRange", reducer |-> "max"],
  [key |-> "hqNearestEnemyRange", reducer |-> "max"],
  [key |-> "hqAverageEnemyRange", reducer |-> "max"],
  [key |-> "hqAngleMaxDeviationDeg", reducer |-> "max"],
  [key |-> "satelliteAngleStdDevDeg", reducer |-> "min"],
  [key |-> "neutralAngleStdDevDeg", reducer |-> "min"],
  [key |-> "centerNeutralCount", reducer |-> "min"],
  [key |-> "centerNeutralCountMax", reducer |-> "max"],
  [key |-> "neutralSpread", reducer |-> "max"],
  [key |-> "clusterAverageRange", reducer |-> "max"],
  [key |-> "clusterMinSpacing", reducer |-> "min"],
  [key |-> "clusterMaxSpacing", reducer |-> "max"],
  [key |-> "minForeignGap", reducer |-> "min"],
  [key |-> "neutralNearCountRange", reducer |-> "max"],
  [key |-> "neutralMidCountRange", reducer |-> "max"],
  [key |-> "neutralFarCountRange", reducer |-> "max"],
  [key |-> "neutralNearMidCountRange", reducer |-> "max"],
  [key |-> "neutralFoundryRange", reducer |-> "max"],
  [key |-> "neutralReactorRange", reducer |-> "max"],
  [key |-> "connectivityRange", reducer |-> "max"],
  [key |-> "isolationRange", reducer |-> "max"],
  [key |-> "clearance", reducer |-> "min"],
  [key |-> "maxDistanceToCenter", reducer |-> "max"],
  [key |-> "minStructureDistance", reducer |-> "min"] >>
FairnessStatKey == {STAT_CONFIG[n].key : n \in 1..Len(STAT_CONFIG)}
\* every statistic reduced with max
reducerAlwaysMax(key) == "max"
\* STAT_CONFIG[key].reducer
reducer(key) == STAT_CONFIG[CHOOSE n \in 1..Len(STAT_CONFIG) : STAT_CONFIG[n].key = key].reducer

\* the metric that summarizeReports feeds into each statistic, in the order of the
\* updateStat calls of lines 174-198
STAT_SOURCES == <<
  [key |-> "adjacentRange", metric |-> <<"adjacentHqRange">>],
  [key |-> "hqRadiusRange", metric |-> <<"hqRadiusRange">>],
  [key |-> "hqNearestEnemyRange", metric |-> <<"hqNearestEnemyRange">>],
  [key |-> "hqAverageEnemyRange", metric |-> <<"hqAverageEnemyRange">>],
  [key |-> "hqAngleMaxDeviationDeg", metric |-> <<"hqAngleMaxDeviationDeg">>],
  [key |-> "satelliteAngleStdDevDeg", metric |-> <<"satelliteAngleStdDevDeg">>],
  [key |-> "neutralAngleStdDevDeg", metric |-> <<"neutralAngleStdDevDeg">>],
  [key |-> "centerNeutralCount", metric |-> <<"centerNeutralCount">>],
  [key |-> "centerNeutralCountMax", metric |-> <<"centerNeutralCount">>],
  [key |-> "neutralSpread", metric |-> <<"nearestNeutralSpread">>],
  [key |-> "clusterAverageRange", metric |-> <<"clusterAverageRange">>],
  [key |-> "clusterMinSpacing", metric |-> <<"clusterMinSpacing">>],
  [key |-> "clusterMaxSpacing", metric |-> <<"clusterMaxSpacing">>],
  [key |-> "minForeignGap", metric |-> <<"minForeignGapAcrossPlayers">>],
  [key |-> "neutralNearCountRange", metric |-> <<"neutralNearCountRange">>],
  [key |-> "neutralMidCountRange", metric |-> <<"neutralMidCountRange">>],
  [key |-> "neutralFarCountRange", metric |-> <<"neutralFarCountRange">>],
  [key |-> "neutralNearMidCountRange", metric |-> <<"neutralNearMidCountRange">>],
  [key |-> "neutralFoundryRange", metric |-> <<"neutralTypeCountRanges", "foundry">>],
  [key |-> "neutralReactorRange", metric |-> <<"neutralTypeCountRanges", "reactor">>],
  [key |-> "connectivityRange", metric |-> <<"connectivityRange">>],
  [key |-> "isolationRange", metric |-> <<"isolationRange">>],
  [key |-> "clearance", metric |-> <<"minStructureClearance">>],
  [key |-> "maxDistanceToCenter", metric |-> <<"maxStructureDistanceToCenter">>],
  [key |-> "minStructureDistance", metric |-> <<"minStructureDistance">>] >>
\* metrics.a or metrics.a.b
metricAt(metrics, path) ==
  IF Len(path) = 1 THEN metrics[path[1]] ELSE metrics[path[1]][path[2]]

\* createInitialStats (lines 142-151): stats[key] for one key
createInitialStats(key) ==
  [value |-> IF reducer(key) = "max" THEN NegInfinity ELSE Infinity, seed |-> null]
\* updateStat without the look at the reducer: every statistic keeps its largest value
updateStatMax(stat, key, value, seed) ==
  IF ~isFinite(value) THEN stat
  ELSE IF value > stat.value THEN [value |-> value, seed |-> seedOf(seed)] ELSE stat
\* updateStat (lines 153-161): the call reads and writes stats[key] only, stat is
\* stats[key] before the call and the result is stats[key] after it
updateStat(stat, key, value, seed) ==
  IF ~isFinite(value) THEN stat
  ELSE IF reducer(key) = "max"
       THEN IF value > stat.value THEN [value |-> value, seed |-> seedOf(seed)] ELSE stat
       ELSE IF value < stat.value THEN [value |-> value, seed |-> seedOf(seed)] ELSE stat
\* finalizeStat (lines 163-168)
finalizeStat(stat, red) ==
  IF ~isFinite(stat.value) THEN [value |-> IF red = "max" THEN 0 ELSE 0, seed |-> null]
  ELSE stat
\* reports.forEach of lines 173-199, over the first n reports: stats[source.key] after
\* the updateStat calls made for it, one per report
RECURSIVE foldReports(_, _, _)
foldReports(source, reports, n) ==
  IF n = 0 THEN createInitialStats(source.key)
  ELSE updateStat(foldReports(source, reports, n - 1), source.key,
                  metricAt(reports[n].metrics, source.metric), reports[n].seed)
\* reports.flatMap((report) => report.metrics.hqDistances), over the first n reports
RECURSIVE allHqDistances(_, _)
allHqDistances(reports, n) ==
  IF n = 0 THEN <<>> ELSE allHqDistances(reports, n - 1) \o reports[n].metrics.hqDistances
\* avg (line 140), as the fraction num / den
avg(values) ==
  IF Len(values) > 0 THEN [num |-> SeqSum(values), den |-> Len(values)]
  ELSE [num |-> 0, den |-> 1]
\* summarizeReports (lines 170-211)
summarizeReports(reports) ==
  LET sourceOf(key) ==
        STAT_SOURCES[CHOOSE n \in 1..Len(STAT_SOURCES) : STAT_SOURCES[n].key = key]
  IN [seedsTested |-> Len(reports),
      averageHqDistance |-> avg(allHqDistances(reports, Len(reports))),
      stats |-> [key \in FairnessStatKey |->
                  finalizeStat(foldReports(sourceOf(key), reports, Len(reports)),
                               reducer(key))]]

\* the metrics of a scenario whose n-th measurement, in the order of STAT_SOURCES
\* without the second use of centerNeutralCount, is v[n]
metricsOf(v, distances) ==
  [adjacentHqRange |-> v[1], hqRadiusRange |-> v[2], hqNearestEnemyRange |-> v[3],
   hqAverageEnemyRange |-> v[4], hqAngleMaxDeviationDeg |-> v[5],
   satelliteAngleStdDevDeg |-> v[6], neutralAngleStdDevDeg |-> v[7],
   centerNeutralCount |-> v[8], nearestNeutralSpread |-> v[9],
   clusterAverageRange |-> v[10], clusterMinSpacing |-> v[11], clusterMaxSpacing |-> v[12],
   minForeignGapAcrossPlayers |-> v[13], neutralNearCountRange |-> v[14],
   neutralMidCountRange |-> v[15], neutralFarCountRange |-> v[16],
   neutralNearMidCountRange |-> v[17],
   neutralTypeCountRanges |-> [foundry |-> v[18], reactor |-> v[19]],
   connectivityRange |-> v[20], isolationRange |-> v[21], minStructureClearance |-> v[22],
   maxStructureDistanceToCenter |-> v[23], minStructureDistance |-> v[24],
   hqDistances |-> distances]
MetricCount == Len(STAT_SOURCES) - 1
\* what evaluateScenarioFairness can return for the scenario of a seed: measurements that
\* rise along the list, that fall along it, that are equal, and that are partly not finite
SampleMetrics ==
  { metricsOf([n \in 1..MetricCount |-> 20 * n], <<7000, 7100>>),
    metricsOf([n \in 1..MetricCount |-> 20 * (MetricCount - n)], <<7200>>),
    metricsOf([n \in 1..MetricCount |-> 240], <<>>),
    metricsOf([n \in 1..MetricCount |-> IF n % 2 = 0 THEN NaN
                                         ELSE IF n % 3 = 0 THEN Infinity ELSE 3000],
              <<7050, 7050>>) }
\* the sample sizes and start seeds of the runFairnessSamples calls
MaxSamples == 3
StartSeeds == {1, 41}

\* runFairnessSamples(sampleSize, startSeed) is called (lines 447-448)
RunFairnessSamples ==
  /\ ~sampling.active
  /\ samples = NoResult
  /\ \E sampleSize \in 0..MaxSamples, startSeed \in StartSeeds :
       sampling' = [active |-> TRUE, sampleSize |-> sampleSize, startSeed |-> startSeed,
                    i |-> 0, reports |-> <<>>]
  /\ UNCHANGED <<samples, narrative, generatorVars, fogVars>>
\* one turn of the loop of lines 449-454: the scenario of the seed is generated and
\* measured, the report is pushed
SampleSeed ==
  /\ sampling.active
  /\ sampling.i < sampling.sampleSize
  /\ \E metrics \in SampleMetrics :
       sampling' = [sampling EXCEPT
                      !.i = @ + 1,
                      !.reports = Append(@, [seed |-> sampling.startSeed + sampling.i,
                                             metrics |-> metrics])]
  /\ UNCHANGED <<samples, narrative, generatorVars, fogVars>>
\* the loop is left, the reports and their summary are returned (lines 456-459)
ReturnSamples ==
  /\ sampling.active
  /\ ~(sampling.i < sampling.sampleSize)
  /\ samples' = [kind |-> "samples",
                 sampleSize |-> sampling.sampleSize, startSeed |-> sampling.startSeed,
                 reports |-> sampling.reports,
                 summary |-> summarizeReports(sampling.reports)]
  /\ sampling' = NoSampling
  /\ UNCHANGED <<narrative, generatorVars, fogVars>>

\* DEFAULT_FAIRNESS_THRESHOLDS (lines 77-95), in tenths
DEFAULT_FAIRNESS_THRESHOLDS ==
  [adjacentRange |-> 200, hqRadiusRange |-> 150, hqNearestEnemyRange |-> 200,
   hqAverageEnemyRange |-> 300, hqAngleMaxDeviationDeg |-> 15,
   satelliteAngleStdDevDegMin |-> 60, neutralAngleStdDevDegMin |-> 50,
   minCenterNeutralCount |-> 30, maxCenterNeutralCount |-> 70, neutralSpread |-> 3500,
   clusterAverageRange |-> 600, clusterMinSpacing |-> 1700, clusterMaxSpacing |-> 3200,
   minForeignGap |-> 600, isolationRange |-> 3000, clearance |-> 400,
   maxStructureDistanceToCenter |-> 16000]
\* CHECK_DEFINITIONS (lines 230-407); the texts are modelled by passText and failText
CHECK_DEFINITIONS == <<
  [id |-> "adjacent", label |-> "HQ spacing", statKey |-> "adjacentRange",
   thresholdKey |-> "adjacentRange", direction |-> "max"],
  [id |-> "centerOccupancy", label |-> "Center occupancy", statKey |-> "centerNeutralCount",
   thresholdKey |-> "minCenterNeutralCount", direction |-> "min"],
  [id |-> "centerCap", label |-> "Center not overcrowded",
   statKey |-> "centerNeutralCountMax", thresholdKey |-> "maxCenterNeutralCount",
   direction |-> "max"],
  [id |-> "antiHexSat", label |-> "Organic satellite angles",
   statKey |-> "satelliteAngleStdDevDeg", thresholdKey |-> "satelliteAngleStdDevDegMin",
   direction |-> "min"],
  [id |-> "antiHexNeu", label |-> "Organic neutral angles",
   statKey |-> "neutralAngleStdDevDeg", thresholdKey |-> "neutralAngleStdDevDegMin",
   direction |-> "min"],
  [id |-> "hqRadius", label |-> "Equal hub radius", statKey |-> "hqRadiusRange",
   thresholdKey |-> "hqRadiusRange", direction |-> "max"],
  [id |-> "hqNearest", label |-> "Nearest enemy distance",
   statKey |-> "hqNearestEnemyRange", thresholdKey |-> "hqNearestEnemyRange",
   direction |-> "max"],
  [id |-> "hqAverage", label |-> "No free central player",
   statKey |-> "hqAverageEnemyRange", thresholdKey |-> "hqAverageEnemyRange",
   direction |-> "max"],
  [id |-> "hqAngle", label |-> "Rotational symmetry", statKey |-> "hqAngleMaxDeviationDeg",
   thresholdKey |-> "hqAngleMaxDeviationDeg", direction |-> "max"],
  [id |-> "clusterSpacing", label |-> "Cluster spacing match",
   statKey |-> "clusterAverageRange", thresholdKey |-> "clusterAverageRange",
   direction |-> "max"],
  [id |-> "clusterInner", label |-> "Cluster inner radius", statKey |-> "clusterMinSpacing",
   thresholdKey |-> "clusterMinSpacing", direction |-> "min"],
  [id |-> "clusterOuter", label |-> "Cluster outer radius", statKey |-> "clusterMaxSpacing",
   thresholdKey |-> "clusterMaxSpacing", direction |-> "max"],
  [id |-> "foreignGap", label |-> "No unfair adjacency", statKey |-> "minForeignGap",
   thresholdKey |-> "minForeignGap", direction |-> "min"],
  [id |-> "neutralSpread", label |-> "Neutral reach parity", statKey |-> "neutralSpread",
   thresholdKey |-> "neutralSpread", direction |-> "max"],
  [id |-> "isolation", label |-> "No isolated player", statKey |-> "isolationRange",
   thresholdKey |-> "isolationRange", direction |-> "max"],
  [id |-> "clearance", label |-> "Structure clearance", statKey |-> "clearance",
   thresholdKey |-> "clearance", direction |-> "min"],
  [id |-> "maxDistance", label |-> "Bounded travel distances",
   statKey |-> "maxDistanceToCenter", thresholdKey |-> "maxStructureDistanceToCenter",
   direction |-> "max"] >>
\* definition.passText(value, limit) and definition.failText(value, limit, seed): the
\* text of the definition, filled in with its arguments
passText(definition, value, limit) ==
  [text |-> "passText", of |-> definition.id, value |-> value, limit |-> limit, seed |-> null]
failText(definition, value, limit, seed) ==
  [text |-> "failText", of |-> definition.id, value |-> value, limit |-> limit, seed |-> seed]
\* value < limit for a 'max' check, value > limit for a 'min' check
passesStrictly(direction, value, limit) ==
  IF direction = "max" THEN value < limit ELSE value > limit
\* definition.direction === 'max' ? value <= limit : value >= limit (lines 418-419)
passes(direction, value, limit) ==
  IF direction = "max" THEN value <= limit ELSE value >= limit
\* evaluateFairnessChecks (lines 409-431)
evaluateFairnessChecks(summary, thresholds) ==
  LET check(definition, stat, limit) ==
        [id |-> definition.id, label |-> definition.label,
         passed |-> passes(definition.direction, stat.value, limit),
         value |-> stat.value, limit |-> limit, seed |-> stat.seed,
         passText |-> passText(definition, stat.value, limit),
         failText |-> failText(definition, stat.value, limit, stat.seed)]
      \* stat?.value ?? 0, stat?.seed ?? null
      statOf(key) == IF key \in DOMAIN summary.stats THEN summary.stats[key]
                     ELSE [value |-> 0, seed |-> null]
  IN Tuple([n \in 1..Len(CHECK_DEFINITIONS) |->
       check(CHECK_DEFINITIONS[n], statOf(CHECK_DEFINITIONS[n].statKey),
             thresholds[CHECK_DEFINITIONS[n].thresholdKey])])
\* buildFairnessNarrative (lines 433-445)
buildFairnessNarrative(summary, thresholds) ==
  LET lines(checks) ==
        << [text |-> "header", seedsTested |-> summary.seedsTested,
            averageHqDistance |-> summary.averageHqDistance] >>
        \o Tuple([n \in 1..Len(checks) |->
             [mark |-> IF checks[n].passed THEN "pass" ELSE "warning",
              text |-> IF checks[n].passed THEN checks[n].passText ELSE checks[n].failText]])
      return(checks) == [checks |-> checks, lines |-> lines(checks)]
  IN return(evaluateFairnessChecks(summary, thresholds))
\* the thresholds of the calls: the default ones, and one limit for every check
ThresholdSets ==
  { DEFAULT_FAIRNESS_THRESHOLDS, [key \in DOMAIN DEFAULT_FAIRNESS_THRESHOLDS |-> 240] }

\* buildFairnessNarrative(summary, thresholds) is called with the summary of the samples
BuildFairnessNarrative ==
  /\ samples.kind = "samples"
  /\ narrative = NoResult
  /\ \E thresholds \in ThresholdSets :
       narrative' = [kind |-> "narrative", summary |-> samples.summary,
                     thresholds |-> thresholds,
                     returned |-> buildFairnessNarrative(samples.summary, thresholds)]
  /\ UNCHANGED <<sampling, samples, generatorVars, fogVars>>

NextReport ==
  \/ RunFairnessSamples
  \/ SampleSeed
  \/ ReturnSamples
  \/ BuildFairnessNarrative
InitReport == GeneratorIdle /\ ReportIdle /\ FogIdle
SpecReport == InitReport /\ [][NextReport]_vars

(***************************************************************************)
(* Fog of war (fogOfWar/worldView.ts with visibility, noise.ts lines 46-99 *)
(* with the last-seen state).  A sonar multiplier is held in halves, a     *)
(* radius and a position as fractions: distances are compared exactly.     *)
(***************************************************************************)
SONAR_RADIUS == 360
DEFAULT_FOG_OF_WAR_CONFIG == [baseSonarRadius |-> SONAR_RADIUS]
\* the multiplier 1, in halves
MultiplierOne == 2
multiplier(halves) == [defined |-> TRUE, value |-> halves]
\* getSpecialistSonarMultiplier (lines 123-124): the product over the first n specialists
RECURSIVE getSpecialistSonarMultiplier(_, _)
getSpecialistSonarMultiplier(outpost, n) ==
  IF n = 0 THEN [num |-> 1, den |-> 1]
  ELSE LET times(acc, m) == [num |-> acc.num * (IF m.defined THEN m.value ELSE MultiplierOne),
                             den |-> acc.den * MultiplierOne]
       IN times(getSpecialistSonarMultiplier(outpost, n - 1),
                outpost.specialists[n].sonarRadiusMultiplier)
\* getOutpostSonarRadius (lines 126-133)
getOutpostSonarRadius(outpost, config) ==
  LET radius(specialistMultiplier, hostMultiplier) ==
        [num |-> config.baseSonarRadius * hostMultiplier * specialistMultiplier.num,
         den |-> MultiplierOne * specialistMultiplier.den]
  IN radius(getSpecialistSonarMultiplier(outpost, Len(outpost.specialists)),
            IF outpost.sonarRadiusMultiplier.defined THEN outpost.sonarRadiusMultiplier.value
            ELSE MultiplierOne)
\* getPlayerSonarSources (lines 135-147)
getPlayerSonarSources(allOutposts, player, config) ==
  LET sources(own) ==
        Tuple([n \in 1..Len(own) |->
          [outpostId |-> own[n].id, x |-> own[n].position.x, y |-> own[n].position.y,
           radius |-> getOutpostSonarRadius(own[n], config)]])
  IN sources(SelectSeq(allOutposts, LAMBDA outpost : outpost.ownerId = player))
\* distance(pos.x, pos.y, source.x, source.y) < source.radius
strictlyInside(pos, source) ==
  ((pos.x - source.x * pos.den) * (pos.x - source.x * pos.den)
     + (pos.y - source.y * pos.den) * (pos.y - source.y * pos.den))
    * source.radius.den * source.radius.den
  < (source.radius.num * pos.den) * (source.radius.num * pos.den)
\* distance(pos.x, pos.y, source.x, source.y) <= source.radius (line 150), for the
\* position (pos.x / pos.den, pos.y / pos.den)
inside(pos, source) ==
  ((pos.x - source.x * pos.den) * (pos.x - source.x * pos.den)
     + (pos.y - source.y * pos.den) * (pos.y - source.y * pos.den))
    * source.radius.den * source.radius.den
  <= (source.radius.num * pos.den) * (source.radius.num * pos.den)
\* isPositionInSonar (lines 149-150)
isPositionInSonar(pos, sources) == \E n \in 1..Len(sources) : inside(pos, sources[n])
\* outpost.position
positionOf(outpost) == [x |-> outpost.position.x, y |-> outpost.position.y, den |-> 1]
\* isOutpostVisibleToPlayer (lines 152-168) when sonarSources is passed
isOutpostVisibleFrom(outpost, player, sonarSources) ==
  IF outpost.ownerId = player THEN TRUE
  ELSE isPositionInSonar(positionOf(outpost), sonarSources)
\* isOutpostVisibleToPlayer (lines 152-168) when sonarSources is left out
isOutpostVisibleToPlayer(outpost, player, allOutposts) ==
  isOutpostVisibleFrom(outpost, player,
                       getPlayerSonarSources(allOutposts, player, DEFAULT_FOG_OF_WAR_CONFIG))
\* getOutpostLookup (lines 170-171) and lookup.get(id): whether the id is a key, and the
\* outpost of the key (the last one with the id)
hasOutpost(allOutposts, id) == \E n \in 1..Len(allOutposts) : allOutposts[n].id = id
getOutpost(allOutposts, id) ==
  allOutposts[CHOOSE n \in 1..Len(allOutposts) :
                /\ allOutposts[n].id = id
                /\ \A m \in (n + 1)..Len(allOutposts) : allOutposts[m].id # id]
\* clamp01 (line 121) of num / den for den > 0, as the numerator over den
clamp01(num, den) == Max(0, Min(den, num))
\* getCarrierPosition without the interpolation: the carrier stays at its origin
getCarrierPositionAtOrigin(carrier, time, allOutposts) ==
  IF ~hasOutpost(allOutposts, carrier.originId)
       \/ ~hasOutpost(allOutposts, carrier.destinationId)
  THEN [x |-> 0, y |-> 0, den |-> 1]
  ELSE positionOf(getOutpost(allOutposts, carrier.originId))
\* getCarrierPosition (lines 173-189)
getCarrierPosition(carrier, time, allOutposts) ==
  IF ~hasOutpost(allOutposts, carrier.originId)
       \/ ~hasOutpost(allOutposts, carrier.destinationId)
  THEN [x |-> 0, y |-> 0, den |-> 1]
  ELSE LET at(origin, destination, t) ==
             [x |-> origin.position.x * t.den
                      + (destination.position.x - origin.position.x) * t.num,
              y |-> origin.position.y * t.den
                      + (destination.position.y - origin.position.y) * t.num,
              den |-> t.den]
           travelled(duration) ==
             IF duration > 0
             THEN [num |-> clamp01(time - carrier.launchTime, duration), den |-> duration]
             ELSE [num |-> 1, den |-> 1]
       IN at(getOutpost(allOutposts, carrier.originId),
             getOutpost(allOutposts, carrier.destinationId),
             travelled(carrier.arrivalTime - carrier.launchTime))
\* isCarrierVisibleToPlayer (lines 191-214) when sonarSources is passed
isCarrierVisibleFrom(carrier, player, allOutposts, time, sonarSources) ==
  IF carrier.ownerId = player THEN TRUE
  ELSE IF /\ hasOutpost(allOutposts, carrier.destinationId)
          /\ getOutpost(allOutposts, carrier.destinationId).ownerId = player THEN TRUE
  ELSE IF Len(sonarSources) = 0 THEN FALSE
  ELSE isPositionInSonar(getCarrierPosition(carrier, time, allOutposts), sonarSources)
\* isCarrierVisibleToPlayer (lines 191-214) when sonarSources is left out
isCarrierVisibleToPlayer(carrier, player, allOutposts, time) ==
  isCarrierVisibleFrom(carrier, player, allOutposts, time,
                       getPlayerSonarSources(allOutposts, player, DEFAULT_FOG_OF_WAR_CONFIG))

\* state.get(playerId) ?? new Map() (noise.ts lines 50-56, worldView.ts line 41)
playerStateOf(state, player) ==
  IF player \in DOMAIN state THEN state[player] ELSE EmptyMap
\* map.set(key, value)
mapSet(map, key, value) == [k \in DOMAIN map \cup {key} |-> IF k = key THEN value ELSE map[k]]
\* the forEach of updateLastSeenState that records every outpost, visible or not
RECURSIVE recordAll(_, _, _, _, _, _)
recordAll(playerState, player, allOutposts, time, sources, n) ==
  IF n = 0 THEN playerState
  ELSE mapSet(recordAll(playerState, player, allOutposts, time, sources, n - 1),
              allOutposts[n].id,
              [droneCount |-> allOutposts[n].droneCount,
               specialists |-> allOutposts[n].specialists, seenAt |-> time])
\* outposts.forEach of updateLastSeenState (noise.ts lines 82-96), over the first n
\* outposts
RECURSIVE recordVisible(_, _, _, _, _, _)
recordVisible(playerState, player, allOutposts, time, sources, n) ==
  IF n = 0 THEN playerState
  ELSE LET set(before) ==
             IF ~isOutpostVisibleFrom(allOutposts[n], player, sources) THEN before
             ELSE mapSet(before, allOutposts[n].id,
                         [droneCount |-> allOutposts[n].droneCount,
                          specialists |-> allOutposts[n].specialists, seenAt |-> time])
       IN set(recordVisible(playerState, player, allOutposts, time, sources, n - 1))
\* updateLastSeenState (noise.ts lines 64-99): the state after the call
updateLastSeenState(state, player, allOutposts, time, sonarSources) ==
  mapSet(state, player,
         recordVisible(playerStateOf(state, player), player, allOutposts, time,
                       sonarSources, Len(allOutposts)))
\* getLastSeenSnapshot (noise.ts lines 58-62): whether there is one, and the snapshot
hasLastSeenSnapshot(state, player, outpostId) ==
  player \in DOMAIN state /\ outpostId \in DOMAIN state[player]
getLastSeenSnapshot(state, player, outpostId) == state[player][outpostId]
\* the view of one outpost (worldView.ts lines 43-77), state being the last-seen state
\* after the update of lines 33-40
outpostView(outpost, player, time, state, sonarSources) ==
  IF isOutpostVisibleFrom(outpost, player, sonarSources)
  THEN [id |-> outpost.id, position |-> outpost.position, type |-> outpost.type,
        ownerId |-> outpost.ownerId, visibility |-> "live",
        droneCount |-> outpost.droneCount, specialists |-> outpost.specialists,
        lastSeenAt |-> time]
  ELSE IF hasLastSeenSnapshot(state, player, outpost.id)
  THEN [id |-> outpost.id, position |-> outpost.position, type |-> outpost.type,
        ownerId |-> outpost.ownerId, visibility |-> "lastSeen",
        lastSeenAt |-> getLastSeenSnapshot(state, player, outpost.id).seenAt,
        lastSeenDroneCount |-> getLastSeenSnapshot(state, player, outpost.id).droneCount,
        lastSeenSpecialists |-> getLastSeenSnapshot(state, player, outpost.id).specialists]
  ELSE [id |-> outpost.id, position |-> outpost.position, type |-> outpost.type,
        ownerId |-> outpost.ownerId, visibility |-> "unknown"]
\* the view of one carrier (worldView.ts lines 91-100)
carrierView(carrier, time, allOutposts) ==
  [id |-> carrier.id, ownerId |-> carrier.ownerId, originId |-> carrier.originId,
   destinationId |-> carrier.destinationId, launchTime |-> carrier.launchTime,
   arrivalTime |-> carrier.arrivalTime, droneCount |-> carrier.droneCount,
   position |-> getCarrierPosition(carrier, time, allOutposts)]
\* what buildPlayerWorldView returns (worldView.ts lines 17-108), state being the
\* last-seen state after the update of lines 33-40
playerWorldView(player, time, allOutposts, allCarriers, state, sonarSources) ==
  LET shown(visible) ==
        Tuple([n \in 1..Len(visible) |-> carrierView(visible[n], time, allOutposts)])
  IN [playerId |-> player,
      asOfTime |-> time,
      outposts |-> Tuple([n \in 1..Len(allOutposts) |->
                    outpostView(allOutposts[n], player, time, state, sonarSources)]),
      carriers |-> shown(SelectSeq(allCarriers, LAMBDA carrier :
                    isCarrierVisibleFrom(carrier, player, allOutposts, time,
                                         sonarSources)))]

\* makeOutpost of the world-view tests (unnamed/part_007 lines 7-20)
makeOutpost(id, ownerId, x, y, droneCount, specialists, sonarRadiusMultiplier) ==
  [id |-> id, type |-> "foundry", position |-> [x |-> x, y |-> y], ownerId |-> ownerId,
   droneCount |-> droneCount, specialists |-> specialists,
   sonarRadiusMultiplier |-> sonarRadiusMultiplier]
\* a specialist that scales the sonar radius by 1.5
surveillance == [id |-> "s1", name |-> "surveillance", sonarRadiusMultiplier |-> multiplier(3)]
\* the players that ask for a view; p3 owns no outpost
FogPlayers == {"p1", "p2", "p3"}
\* the places of the outpost e1: on the sonar radius of the HQ of p1, just outside it, and
\* far outside it
E1Positions == { [x |-> 216, y |-> 288], [x |-> 361, y |-> 0], [x |-> 720, y |-> 0] }
\* the outposts at the time t with e1 at the position at: the drone count of e1 grows with
\* the time, the HQ of p1 gets a surveillance specialist at time 2, p1 takes the neutral
\* outpost n1 at time 3
World(t, at) ==
  << makeOutpost("hq", "p1", 0, 0, 100, IF t >= 2 THEN <<surveillance>> ELSE <<>>, undefined),
     makeOutpost("e1", "p2", at.x, at.y, 20 + 15 * t, <<>>, undefined),
     makeOutpost("e2", "p2", 560, 0, 30, <<>>, undefined),
     makeOutpost("enemyA", "p2", 700, 0, 10, <<>>, undefined),
     makeOutpost("enemyB", "p2", -700, 0, 10, <<>>, multiplier(1)),
     makeOutpost("n1", IF t >= 3 THEN "p1" ELSE "", 0, 900, 5, <<>>, undefined) >>
\* the carriers of the world: one of p1, one of p2 bound for the HQ of p1, one of p2 that
\* crosses the sonar of p1 between two outposts of p2, one of p2 that arrives as it
\* leaves, and one of p2 whose origin is no outpost of the world
Carriers ==
  << [id |-> "c1", ownerId |-> "p1", originId |-> "hq", destinationId |-> "enemyA",
      launchTime |-> 0, arrivalTime |-> 4, droneCount |-> 50],
     [id |-> "c2", ownerId |-> "p2", originId |-> "enemyA", destinationId |-> "hq",
      launchTime |-> 0, arrivalTime |-> 4, droneCount |-> 20],
     [id |-> "c3", ownerId |-> "p2", originId |-> "enemyA", destinationId |-> "enemyB",
      launchTime |-> 0, arrivalTime |-> 4, droneCount |-> 15],
     [id |-> "c4", ownerId |-> "p2", originId |-> "enemyB", destinationId |-> "enemyA",
      launchTime |-> 1, arrivalTime |-> 1, droneCount |-> 15],
     [id |-> "c5", ownerId |-> "p2", originId |-> "gone", destinationId |-> "enemyB",
      launchTime |-> 0, arrivalTime |-> 4, droneCount |-> 15] >>
MaxClock == 3
MaxViews == 3

\* the world moves on: time passes, e1 is where it is then
Advance ==
  /\ clock < MaxClock
  /\ clock' = clock + 1
  /\ \E at \in E1Positions : outposts' = World(clock + 1, at)
  /\ UNCHANGED <<carriers, lastSeenState, worldView, viewCalls, generatorVars, reportVars>>
\* buildPlayerWorldView({ playerId, time, outposts, carriers, lastSeenState }) is called
\* for the world as it is (worldView.ts lines 17-108)
BuildPlayerWorldView ==
  /\ Len(viewCalls) < MaxViews
  /\ \E player \in FogPlayers :
       LET build(sonarSources) ==
             /\ lastSeenState' = updateLastSeenState(lastSeenState, player, outposts,
                                                     clock, sonarSources)
             /\ worldView' = playerWorldView(player, clock, outposts, carriers,
                                             lastSeenState', sonarSources)
       IN /\ build(getPlayerSonarSources(outposts, player, DEFAULT_FOG_OF_WAR_CONFIG))
          /\ viewCalls' = Append(viewCalls, [playerId |-> player, time |-> clock,
                                             outposts |-> outposts, carriers |-> carriers])
  /\ UNCHANGED <<outposts, carriers, clock, generatorVars, reportVars>>

NextFog ==
  \/ Advance
  \/ BuildPlayerWorldView
InitFog ==
  /\ GeneratorIdle
  /\ ReportIdle
  /\ outposts \in {World(0, at) : at \in E1Positions}
  /\ carriers = Carriers
  /\ clock = 0
  /\ lastSeenState = EmptyMap
  /\ worldView = NoResult
  /\ viewCalls = <<>>
SpecFog == InitFog /\ [][NextFog]_vars

(***************************************************************************)
(* rebalanceNeutrals called on its own (neutralRebalancer.ts lines         *)
(* 110-282), as the generator calls it at lines 1440-1464, on layouts that *)
(* include the empty ones.                                                 *)
(***************************************************************************)
\* five HQs on the ring of the generator
layoutHqs ==
  Tuple([i \in 1..NUM_PLAYERS |->
    LET p == polar(center, ringRadius, hqAngle(i, 0))
    IN [x |-> p.x, y |-> p.y, id |-> playerId(i) \o "-hq", type |-> "hq",
        ownerId |-> playerId(i)]])
\* the neutral structures at the given positions
layoutNeutrals(positions) == neutralsOf(positions, NEUTRAL_TYPE_POOL)
\* the point at distance r from HQ i towards the map centre, turned by off degrees
towardsCenter(i, r, off) == polar(layoutHqs[i], r, hqAngle(i, 0) + 180 + off)
\* two neutrals in front of every HQ, the same way for every HQ
evenNeutrals ==
  Tuple([n \in 1..(2 * NUM_PLAYERS) |->
    IF n <= NUM_PLAYERS THEN towardsCenter(n, 300, 40)
    ELSE towardsCenter(n - NUM_PLAYERS, 300, -40)])
\* as evenNeutrals, the first neutral of HQ 1 a little farther from it
unevenNeutrals == [evenNeutrals EXCEPT ![1] = towardsCenter(1, 520, 40)]
\* three neutrals, all of them in front of HQ 1
lopsidedNeutrals ==
  <<towardsCenter(1, 300, 40), towardsCenter(1, 300, -40), towardsCenter(1, 560, 0)>>
\* the layouts rebalanceNeutrals is called with: no HQ, no neutral, neither, neutrals
\* within both limits, and neutrals beyond them
RebalanceLayouts ==
  { layoutNeutrals(lopsidedNeutrals),
    layoutHqs,
    <<>>,
    layoutHqs \o layoutNeutrals(evenNeutrals),
    layoutHqs \o layoutNeutrals(unevenNeutrals),
    layoutHqs \o layoutNeutrals(lopsidedNeutrals) }
\* the states of the RNG at the call
RebalanceRngStates == {<<0, k>> : k \in 1..4}
\* rebalanceNeutrals is about to be called on a layout
InitRebalance ==
  /\ script = <<>>
  /\ pc = "rebalanceNeutrals"
  /\ option = NoSeed
  /\ resolvedSeed = Num(1)
  /\ depth = 0
  /\ s \in RebalanceRngStates
  /\ hqs = <<>>
  /\ placed = <<>>
  /\ sats = <<>>
  /\ neutralPlacements = <<>>
  /\ frame = [iter |-> 0]
  /\ allPoints \in RebalanceLayouts
  /\ result = NoResult
  /\ history = <<>>
  /\ drawn = [from |-> s, ks |-> <<>>]
  /\ ReportIdle
  /\ FogIdle
NextRebalance == RebalanceNeutrals
SpecRebalance == InitRebalance /\ [][NextRebalance]_vars

(***************************************************************************)
(* The measurements of evaluateScenarioFairness (fairnessMetrics.ts) that  *)
(* the properties below are stated in                                      *)
(***************************************************************************)
hqsOf(structures) == SelectSeq(structures, LAMBDA st : st.type = "hq" /\ st.ownerId # "")
\* orderedHqs (lines 182-184): the HQ of each player, in player order
orderedHqs(scenario) ==
  LET found(i) == SelectSeq(hqsOf(scenario.structures),
                            LAMBDA st : st.ownerId = scenario.players[i].id)
      has == SelectSeq(Tuple([i \in 1..Len(scenario.players) |-> i]),
                       LAMBDA i : Len(found(i)) > 0)
  IN Tuple([n \in 1..Len(has) |-> found(has[n])[1]])
\* hqRadiusRange (lines 194-195), in tenths
hqRadiusRange(scenario) ==
  LET hqRadiusValues == Tuple([n \in 1..Len(orderedHqs(scenario)) |->
                                 length(orderedHqs(scenario)[n], center)])
  IN IF Len(hqRadiusValues) > 0 THEN SeqMax(hqRadiusValues) - SeqMin(hqRadiusValues) ELSE 0
\* hqAngleMaxDeviationDeg (lines 213-228), in degrees
hqAngleMaxDeviationDeg(scenario) ==
  LET hqPts == orderedHqs(scenario)
      wedgeArc == 360 \div Len(scenario.players)
      hqAngles == SortSeq(Tuple([n \in 1..Len(hqPts) |->
                    Atan2(hqPts[n].y - center.y, hqPts[n].x - center.x) % 360]),
                         LAMBDA a, b : a < b)
      delta(i) == LET d == (hqAngles[(i % Len(hqAngles)) + 1] - hqAngles[i] + 360) % 360
                  IN IF d = 0 THEN 360 ELSE d
      angleDeviations == Tuple([i \in 1..Len(hqAngles) |-> Abs(delta(i) - wedgeArc)])
  IN IF Len(angleDeviations) > 0 THEN SeqMax(angleDeviations) ELSE 0
\* nearestNeutralSpread (lines 295-314), in tenths
nearestNeutralSpread(scenario) ==
  SpreadOf(nearestSums(orderedHqs(scenario), unowned(scenario.structures)))
\* isolationRange (fairnessMetrics.ts lines 457-476), in sixtieths: per player with an
\* HQ, avg of the distances to the ISOLATION_NEUTRAL_COUNT = 3 nearest neutrals plus avg
\* of the distances to the ISOLATION_HQ_COUNT = 2 nearest HQs of others; avg of nothing
\* is 0, and the score of a player without HQ is 0
playerIsolationScores(scenario) ==
  LET hqPts == orderedHqs(scenario)
      neutrals == unowned(scenario.structures)
      avgOf(d) == IF Len(d) > 0 THEN (6 * SeqSum(d)) \div Len(d) ELSE 0
      firstTwo(d) == SubSeq(d, 1, Min(2, Len(d)))
      scoreOf(hq) ==
        avgOf(NearestThree(hq, neutrals))
        + avgOf(firstTwo(NearestThree(hq, SelectSeq(hqPts, LAMBDA st : st.ownerId # hq.ownerId))))
      mine(i) == SelectSeq(hqPts, LAMBDA st : st.ownerId = scenario.players[i].id)
  IN Tuple([i \in 1..Len(scenario.players) |->
       IF Len(mine(i)) = 0 THEN 0 ELSE scoreOf(mine(i)[1])])
isolationRangeOf(scenario) == SpreadOf(playerIsolationScores(scenario))
\* minStructureClearance > 0 (lines 478-497): every pair is farther apart than the sum of
\* its sizes
clearancePositive(structures) ==
  \A i \in 1..Len(structures) : \A j \in (i + 1)..Len(structures) :
    lengthSq(structures[i], structures[j])
      > (structures[i].size + structures[j].size) * (structures[i].size + structures[j].size)
\* centerNeutralCount (lines 499-501)
centerNeutralCount(scenario) == centerCount(unowned(scenario.structures))
\* playerSummaries (lines 161-170)
playerSummaries(scenario) ==
  Tuple([i \in 1..Len(scenario.players) |->
    LET mine == SelectSeq(scenario.structures, LAMBDA st : st.ownerId = scenario.players[i].id)
        count(type) == Len(SelectSeq(mine, LAMBDA st : st.type = type))
    IN [playerId |-> scenario.players[i].id, total |-> Len(mine), hq |-> count("hq"),
        foundry |-> count("foundry"), reactor |-> count("reactor")]])

(***************************************************************************)
(* Properties                                                              *)
(***************************************************************************)
\* what the i-th finished call was given and what it returned
optionOf(i) == history[i][1]
resultOf(i) == history[i][2]
\* the last call returned a scenario
Returned == pc = "idle" /\ result.kind = "scenario"
\* the points of the pass as they were right after normalization
asNormalized == normalize(placed \o neutralsOf(neutralPlacements, NEUTRAL_TYPE_POOL))
\* normalization scaled the pass down
ScaledDown == LET scale == scaleOf(placed \o neutralsOf(neutralPlacements, NEUTRAL_TYPE_POOL))
              IN scale.num < scale.den
\* a repair after normalization moved a neutral
MovedAfterNormalization ==
  /\ Len(allPoints) = Len(asNormalized)
  /\ \E n \in 1..Len(allPoints) : Pos(allPoints[n]) # Pos(asNormalized[n])

\* C1: two calls of generateStartingScenario with the same numeric seed return identical
\* results: the same players, the same activePlayerIndex and the same structures in the
\* same order, with the same id, type, owner, label and position.
C1_Determinism ==
  \A i, j \in 1..Len(history) :
    (optionOf(i).kind = "number" /\ optionOf(i) = optionOf(j)) => resultOf(i) = resultOf(j)
\* two calls with the same seed have both returned a scenario of 30 structures
C1_Witness ==
  /\ Len(history) = 2
  /\ optionOf(1).kind = "number" /\ optionOf(1) = optionOf(2)
  /\ resultOf(1).kind = "scenario" /\ resultOf(2).kind = "scenario"
  /\ Len(resultOf(2).structures) = 30

\* C2: every returned scenario has exactly 5 players and exactly 30 structures, exactly 10
\* of them neutral, and every player owns exactly 4: 1 hq, 2 foundries and 1 reactor.
C2_Cardinality ==
  result.kind = "scenario" =>
    /\ Len(result.players) = 5
    /\ Len(result.structures) = 30
    /\ Len(unowned(result.structures)) = 10
    /\ \A i \in 1..Len(result.players) :
         LET summary == playerSummaries(result)[i]
         IN summary.total = 4 /\ summary.hq = 1 /\ summary.foundry = 2 /\ summary.reactor = 1
\* a scenario was returned in which the last player owns a reactor
C2_Witness ==
  /\ Returned
  /\ playerSummaries(result)[Len(result.players)].reactor = 1

\* C3: every structure of every returned scenario has 0 <= x <= MAP_WIDTH and
\* 0 <= y <= MAP_HEIGHT, whatever normalization and the repairs after it did.
C3_Bounds ==
  result.kind = "scenario" =>
    \A n \in 1..Len(result.structures) :
      /\ 0 <= result.structures[n].x /\ result.structures[n].x <= MAP_WIDTH
      /\ 0 <= result.structures[n].y /\ result.structures[n].y <= MAP_HEIGHT
\* a scenario was returned from a pass that was scaled down and then repaired
C3_Witness ==
  /\ Returned
  /\ ScaledDown
  /\ MovedAfterNormalization
  /\ \E n \in 1..Len(result.structures) : result.structures[n].x > MAP_HEIGHT

\* C4: in every returned scenario every two distinct structures are farther apart, centre
\* to centre, than the sum of their sizes, also after the down-scaling of normalization and
\* after the neutral moves that follow it.
C4_Clearance == result.kind = "scenario" => clearancePositive(result.structures)
\* a scenario was returned from a pass that was scaled down and whose neutrals were moved
\* afterwards, and two of its structures are less than 270 apart
C4_Witness ==
  /\ Returned
  /\ ScaledDown
  /\ MovedAfterNormalization
  /\ \E i, j \in 1..Len(result.structures) :
       i < j /\ Closer(result.structures[i], result.structures[j], 150)

\* C5: a call never raises an error: when a pass ends with a wrong number of structures
\* the call returns what the call with the next seed returns.
C5_NoError == result.kind # "RangeError"

\* C6: in every returned scenario the five HQs are at the same distance from the map
\* centre, within 15 units, and consecutive HQs are 72 degrees apart, within 1.5 degrees.
C6_HqSymmetry ==
  result.kind = "scenario" =>
    /\ Len(orderedHqs(result)) = NUM_PLAYERS
    /\ hqRadiusRange(result) <= 150
    /\ 10 * hqAngleMaxDeviationDeg(result) <= 15
\* a scenario was returned from a pass that was scaled down, with an HQ in the left half
\* of the map and an HQ in the right half
C6_Witness ==
  /\ Returned
  /\ ScaledDown
  /\ \E n \in 1..Len(orderedHqs(result)) : orderedHqs(result)[n].x < center.x
  /\ \E n \in 1..Len(orderedHqs(result)) : orderedHqs(result)[n].x > center.x

specNormal(v) == IF IsZero(v.mag) THEN Num(1) ELSE v.mag
\* C9: a call with a finite numeric seed v returns what the call with the seed
\* max(1, floor(|v|)) returns; so do v and -v, and so do 0 and 1.
C9_SeedNormalization ==
  \A i, j \in 1..Len(history) :
    (/\ optionOf(i).kind = "number"
     /\ optionOf(j) = Seed(FALSE, specNormal(optionOf(i)), FALSE))
    => resultOf(i) = resultOf(j)
\* a call with a negative seed that has a fractional part, and then a call with its normal
\* form, have both returned a scenario
C9_Witness ==
  /\ Len(history) = 2
  /\ optionOf(1).neg /\ optionOf(1).frac
  /\ optionOf(2) = Seed(FALSE, specNormal(optionOf(1)), FALSE)
  /\ resultOf(1).kind = "scenario" /\ resultOf(2).kind = "scenario"

(***************************************************************************)
(* The xorshift recurrence of lines 1015-1018 written out on the 32 bits   *)
(* of the state, bit 1 the least significant, as the reference the draws   *)
(* of a run are compared with                                              *)
(***************************************************************************)
WordBits == 32
\* 2^n
RECURSIVE TwoTo(_)
TwoTo(n) == IF n = 0 THEN 1 ELSE 2 * TwoTo(n - 1)
\* the bits of the state <<hi, lo>>
bitsOf(v) == Tuple([n \in 1..WordBits |->
               IF n <= 16 THEN (v[2] \div TwoTo(n - 1)) % 2 ELSE (v[1] \div TwoTo(n - 17)) % 2])
\* the state <<hi, lo>> of the bits b
RECURSIVE valueOfBits(_, _, _)
valueOfBits(b, from, to) ==
  IF to < from THEN 0 ELSE 2 * valueOfBits(b, from + 1, to) + b[from]
wordOf(b) == <<valueOfBits(b, 17, 32), valueOfBits(b, 1, 16)>>
bitXor(a, b) == Tuple([n \in 1..WordBits |-> (a[n] + b[n]) % 2])
\* a << k: the upper k bits fall off
bitShl(a, k) == Tuple([n \in 1..WordBits |-> IF n > k THEN a[n - k] ELSE 0])
\* a >> k: the sign bit fills the upper k bits
bitSar(a, k) == Tuple([n \in 1..WordBits |-> IF n + k <= WordBits THEN a[n + k] ELSE a[WordBits]])
xorshift(a) ==
  LET b == bitXor(a, bitShl(a, 13))
      c == bitXor(b, bitSar(b, 17))
  IN bitXor(c, bitShl(c, 5))
\* (s >>> 0) % 1000000: the bits read as an unsigned number, most significant bit first
RECURSIVE unsignedMod(_, _, _)
unsignedMod(b, n, acc) ==
  IF n = 0 THEN acc ELSE unsignedMod(b, n - 1, (2 * acc + b[n]) % RngModulus)
\* the values of n consecutive draws from the bits a, and the state they leave
RECURSIVE referenceDraws(_, _)
referenceDraws(a, n) ==
  IF n = 0 THEN [ks |-> <<>>, s |-> wordOf(a)]
  ELSE LET next == xorshift(a)
           rest == referenceDraws(next, n - 1)
       IN [ks |-> <<unsignedMod(next, WordBits, 0)>> \o rest.ks, s |-> rest.s]

\* C10: every draw of the scenario RNG returns k / 1000000 with 0 <= k < 1000000, and the
\* values drawn and the state left are those of the 32-bit xorshift recurrence (<< 13,
\* >> 17, << 5) applied to the state the draws started from.
C10_Rng ==
  LET ref == referenceDraws(bitsOf(drawn.from), Len(drawn.ks))
  IN /\ \A n \in 1..Len(drawn.ks) : 0 <= drawn.ks[n] /\ drawn.ks[n] < RngModulus
     /\ drawn.ks = ref.ks
     /\ Len(drawn.ks) > 0 => s = ref.s
\* a step after the assembly of a pass drew several values, starting from a state with
\* the sign bit set
C10_Witness ==
  /\ Len(allPoints) = 30
  /\ Len(drawn.ks) >= 2
  /\ drawn.from[1] >= 32768

\* the types of the neutral structures of a scenario, in the scenario's order
neutralTypesOf(scenario) ==
  LET neutral == unowned(scenario.structures)
  IN Tuple([i \in 1..Len(neutral) |-> neutral[i].type])
countOf(seq, e) == Cardinality({i \in 1..Len(seq) : seq[i] = e})
\* C11: in every returned scenario exactly 5 of the 10 neutral structures are foundries and
\* exactly 5 are reactors: the types of the neutrals are a permutation of the type pool.
C11_NeutralTypes ==
  result.kind = "scenario" =>
    /\ countOf(neutralTypesOf(result), "foundry") = 5
    /\ countOf(neutralTypesOf(result), "reactor") = 5
    /\ Len(neutralTypesOf(result)) = Len(NEUTRAL_TYPE_POOL)
    /\ \A type \in {"foundry", "reactor", "hq"} :
         countOf(neutralTypesOf(result), type) = countOf(NEUTRAL_TYPE_POOL, type)
\* a scenario was returned whose neutrals do not follow the order of the pool: a reactor
\* comes before a foundry
C11_Witness ==
  /\ Returned
  /\ neutralTypesOf(result) # NEUTRAL_TYPE_POOL
  /\ \E i, j \in 1..Len(NEUTRAL_TYPE_POOL) :
       i < j /\ neutralTypesOf(result)[i] = "reactor" /\ neutralTypesOf(result)[j] = "foundry"

\* the reports of the samples in which the metric behind the n-th statistic is finite
observedBy(n) ==
  {m \in 1..Len(samples.reports) :
     isFinite(metricAt(samples.reports[m].metrics, STAT_SOURCES[n].metric))}
\* the value of the metric behind the n-th statistic in the m-th report of the samples
observedValue(n, m) == metricAt(samples.reports[m].metrics, STAT_SOURCES[n].metric)
\* C12: runFairnessSamples(n, startSeed) returns exactly n reports, for the seeds
\* startSeed, ..., startSeed + n - 1 in that order; its summary has seedsTested = n and,
\* for every statistic, the worst finite value of the reports (the largest for a 'max'
\* statistic, the smallest for a 'min' statistic) with the seed of a report that has it.
C12_Samples ==
  samples.kind = "samples" =>
    /\ Len(samples.reports) = samples.sampleSize
    /\ \A m \in 1..Len(samples.reports) : samples.reports[m].seed = samples.startSeed + m - 1
    /\ samples.summary.seedsTested = samples.sampleSize
    /\ DOMAIN samples.summary.stats = FairnessStatKey
    /\ \A n \in 1..Len(STAT_SOURCES) :
         \/ observedBy(n) = {}
         \/ /\ \A m \in observedBy(n) :
                  IF reducer(STAT_SOURCES[n].key) = "max"
                  THEN observedValue(n, m) <= samples.summary.stats[STAT_SOURCES[n].key].value
                  ELSE observedValue(n, m) >= samples.summary.stats[STAT_SOURCES[n].key].value
            /\ \E m \in observedBy(n) :
                  /\ observedValue(n, m) = samples.summary.stats[STAT_SOURCES[n].key].value
                  /\ samples.summary.stats[STAT_SOURCES[n].key].seed
                       = seedOf(samples.reports[m].seed)
\* three seeds from 41 on were sampled; the first report has a radius range that is not a
\* number, the worst radius range is the second report's and the worst connectivity range
\* the third's
C12_Witness ==
  /\ samples.kind = "samples"
  /\ samples.sampleSize = 3 /\ samples.startSeed = 41
  /\ samples.reports[1].metrics.hqRadiusRange = NaN
  /\ samples.summary.stats["hqRadiusRange"].seed = seedOf(42)
  /\ samples.summary.stats["connectivityRange"].seed = seedOf(43)
  /\ samples.summary.stats["clearance"].seed = seedOf(42)

\* C13: evaluateFairnessChecks returns one result per check definition, in the order of
\* the definitions; a result has passed exactly when the summary value is <= the
\* threshold for a 'max' check, >= the threshold for a 'min' check; buildFairnessNarrative
\* gives one header line, then one line per check with the pass text when the check
\* passed and the fail text otherwise.
C13_Checks ==
  narrative.kind = "narrative" =>
    /\ Len(narrative.returned.checks) = Len(CHECK_DEFINITIONS)
    /\ Len(narrative.returned.lines) = 1 + Len(CHECK_DEFINITIONS)
    /\ narrative.returned.lines[1].text = "header"
    /\ \A n \in 1..Len(CHECK_DEFINITIONS) :
         /\ narrative.returned.checks[n].id = CHECK_DEFINITIONS[n].id
         /\ narrative.returned.checks[n].passed
              = IF CHECK_DEFINITIONS[n].direction = "max"
                THEN narrative.summary.stats[CHECK_DEFINITIONS[n].statKey].value
                       <= narrative.thresholds[CHECK_DEFINITIONS[n].thresholdKey]
                ELSE narrative.summary.stats[CHECK_DEFINITIONS[n].statKey].value
                       >= narrative.thresholds[CHECK_DEFINITIONS[n].thresholdKey]
         /\ narrative.returned.lines[n + 1].text.of = CHECK_DEFINITIONS[n].id
         /\ narrative.returned.lines[n + 1].text.text
              = IF narrative.returned.checks[n].passed THEN "passText" ELSE "failText"
         /\ narrative.returned.lines[n + 1].mark
              = IF narrative.returned.checks[n].passed THEN "pass" ELSE "warning"
\* a narrative was built in which the first check, a 'max' check, and the clearance check,
\* a 'min' check, passed with their values on the limit, and the last check failed
C13_Witness ==
  /\ narrative.kind = "narrative"
  /\ narrative.returned.checks[1].passed
  /\ narrative.returned.checks[1].value = narrative.returned.checks[1].limit
  /\ narrative.returned.checks[16].id = "clearance"
  /\ narrative.returned.checks[16].passed
  /\ narrative.returned.checks[16].value = narrative.returned.checks[16].limit
  /\ ~narrative.returned.checks[Len(CHECK_DEFINITIONS)].passed

\* the position (pos.x / pos.den, pos.y / pos.den) is at most the sonar radius of the
\* outpost away from it
withinSonarOf(pos, outpost) ==
  LET r == getOutpostSonarRadius(outpost, DEFAULT_FOG_OF_WAR_CONFIG)
      dx == pos.x - outpost.position.x * pos.den
      dy == pos.y - outpost.position.y * pos.den
  IN r.den * r.den * (dx * dx + dy * dy) <= r.num * r.num * pos.den * pos.den
\* the position is within the sonar radius of an outpost that the player owns
inSonarOf(pos, player, allOutposts) ==
  \E m \in 1..Len(allOutposts) :
    allOutposts[m].ownerId = player /\ withinSonarOf(pos, allOutposts[m])
\* the outpost is the player's own or within the sonar radius of one of the player's
seenBy(outpost, player, allOutposts) ==
  outpost.ownerId = player \/ inSonarOf(positionOf(outpost), player, allOutposts)
\* the last buildPlayerWorldView call, and the calls before it that the same player made
\* and in which the outpost of the id was visible to the player
lastCall == viewCalls[Len(viewCalls)]
sawEarlier(id) ==
  {k \in 1..(Len(viewCalls) - 1) :
     /\ viewCalls[k].playerId = lastCall.playerId
     /\ \E m \in 1..Len(viewCalls[k].outposts) :
          /\ viewCalls[k].outposts[m].id = id
          /\ seenBy(viewCalls[k].outposts[m], lastCall.playerId, viewCalls[k].outposts)}
\* the outpost of the id as it was passed to the k-th call
outpostIn(k, id) ==
  viewCalls[k].outposts[CHOOSE m \in 1..Len(viewCalls[k].outposts) :
                          viewCalls[k].outposts[m].id = id]
\* C14: over the buildPlayerWorldView calls of a player that share one lastSeenState, an
\* outpost of a returned view is 'live', with the current drone count and the time of the
\* call, exactly when it is visible to the player in that call; 'lastSeen' exactly when it
\* is not visible now but was in an earlier call, and then it has the drone count and the
\* time of the latest call in which it was visible; 'unknown' exactly when it was visible
\* in no call so far.
C14_LastSeen ==
  viewCalls # <<>> =>
    /\ Len(worldView.outposts) = Len(lastCall.outposts)
    /\ \A n \in 1..Len(lastCall.outposts) :
         LET outpost == lastCall.outposts[n]
             view == worldView.outposts[n]
             now == seenBy(outpost, lastCall.playerId, lastCall.outposts)
             earlier == sawEarlier(outpost.id)
             latest == CHOOSE k \in earlier : \A j \in earlier : j <= k
         IN /\ view.id = outpost.id
            /\ (view.visibility = "live") = now
            /\ (view.visibility = "lastSeen") = (~now /\ earlier # {})
            /\ (view.visibility = "unknown") = (~now /\ earlier = {})
            /\ view.visibility = "live" =>
                 view.droneCount = outpost.droneCount /\ view.lastSeenAt = lastCall.time
            /\ view.visibility = "lastSeen" =>
                 /\ view.lastSeenDroneCount = outpostIn(latest, outpost.id).droneCount
                 /\ view.lastSeenAt = viewCalls[latest].time
\* p1 asked three times: e1 was visible the first two times, at different times and with
\* different drone counts, and is not visible now; the view has the second count, which is
\* not the current one, and e2 is unknown
C14_Witness ==
  /\ Len(viewCalls) = 3
  /\ \A k \in 1..3 : viewCalls[k].playerId = "p1"
  /\ viewCalls[1].time < viewCalls[2].time
  /\ sawEarlier("e1") = {1, 2}
  /\ worldView.outposts[2].id = "e1"
  /\ worldView.outposts[2].visibility = "lastSeen"
  /\ worldView.outposts[2].lastSeenAt = viewCalls[2].time
  /\ worldView.outposts[2].lastSeenDroneCount # lastCall.outposts[2].droneCount
  /\ worldView.outposts[3].visibility = "unknown"

\* C15: isOutpostVisibleToPlayer is true exactly when the player owns the outpost or the
\* outpost is within the sonar radius (distance <= radius) of an outpost that the player
\* owns; a player without outposts sees no outpost.
C15_OutpostVisible ==
  \A player \in FogPlayers :
    /\ \A n \in 1..Len(outposts) :
         isOutpostVisibleToPlayer(outposts[n], player, outposts)
           = seenBy(outposts[n], player, outposts)
    /\ (\A n \in 1..Len(outposts) : outposts[n].ownerId # player) =>
         \A n \in 1..Len(outposts) : ~isOutpostVisibleToPlayer(outposts[n], player, outposts)
\* p1 was given a view in which e1, exactly on the sonar radius of the HQ of p1, is live and
\* e2, outside it, is not; p3, who owns nothing, sees nothing in the same world
C15_Witness ==
  /\ viewCalls # <<>>
  /\ lastCall.playerId = "p1"
  /\ lastCall.outposts = outposts
  /\ outposts[2].position = [x |-> 216, y |-> 288]
  /\ Len(outposts[1].specialists) = 0
  /\ worldView.outposts[2].visibility = "live"
  /\ worldView.outposts[3].visibility # "live"
  /\ \A n \in 1..Len(outposts) : ~isOutpostVisibleToPlayer(outposts[n], "p3", outposts)

\* where the carrier is at the time: at its destination when the trip takes no time,
\* otherwise the part (time - launchTime) / (arrivalTime - launchTime) of the way from the
\* origin to the destination, no less than none and no more than all of it
onTheWay(carrier, time, allOutposts) ==
  LET origin == getOutpost(allOutposts, carrier.originId).position
      destination == getOutpost(allOutposts, carrier.destinationId).position
      duration == carrier.arrivalTime - carrier.launchTime
      den == IF duration > 0 THEN duration ELSE 1
      done == IF duration <= 0 \/ time >= carrier.arrivalTime THEN den
              ELSE IF time <= carrier.launchTime THEN 0
              ELSE time - carrier.launchTime
  IN [x |-> (den - done) * origin.x + done * destination.x,
      y |-> (den - done) * origin.y + done * destination.y, den |-> den]
\* the carriers of the last call that the returned view shows
shownCarriers == {worldView.carriers[n].id : n \in 1..Len(worldView.carriers)}
\* the player owns the carrier or the outpost that the carrier is bound for
ownOrInbound(carrier, player, allOutposts) ==
  \/ carrier.ownerId = player
  \/ /\ hasOutpost(allOutposts, carrier.destinationId)
     /\ getOutpost(allOutposts, carrier.destinationId).ownerId = player
BeforeNormalization ==
  pc \in {"satellites", "centerCluster", "backfield", "fill", "improveNeutrals",
          "balanceNeutralReach", "topUp", "clampNearestAccess", "personalNeutral",
          "hardClamp", "centerFix", "centerHigh", "forceOut", "evacuate", "assemble"}
\* C19: at every point of a pass before normalization every neutral is at least
\* NEUTRAL_MIN_SEPARATION away from every owned structure and from every other neutral.
C19_NeutralSeparation ==
  BeforeNormalization =>
    \A n \in 1..Len(neutralPlacements) :
      /\ \A m \in 1..Len(placed) :
           lengthSq(neutralPlacements[n], placed[m])
             >= NEUTRAL_MIN_SEPARATION * NEUTRAL_MIN_SEPARATION
      /\ \A m \in 1..Len(neutralPlacements) :
           m # n => lengthSq(neutralPlacements[n], neutralPlacements[m])
                      >= NEUTRAL_MIN_SEPARATION * NEUTRAL_MIN_SEPARATION
\* a pass has its NEUTRAL_COUNT neutrals before assembly, after the repairs of the centre
\* count, and two of them are less than 270 apart
C19_Witness ==
  /\ pc = "assemble"
  /\ Len(neutralPlacements) = NEUTRAL_COUNT
  /\ \E n, m \in 1..Len(neutralPlacements) :
       n # m /\ lengthSq(neutralPlacements[n], neutralPlacements[m]) < 270 * 270

\* the satellites accepted so far for the player whose cluster is being sampled
samplingSatellites == pc = "satellites" /\ frame.sat <= SAT_COUNT
\* the direction of a point seen from an HQ, in degrees
directionFrom(anchor, p) == Atan2(p.y - anchor.y, p.x - anchor.x)
\* C17: every satellite accepted by the cluster sampler is, when accepted and for as long
\* as its cluster is being sampled, within [CLUSTER_DISTANCE_MIN, CLUSTER_DISTANCE_MAX] of
\* its own HQ, at least CLUSTER_MIN_SEPARATION from every sibling accepted before it, at
\* least SAT_MIN_ANGLE_SEP degrees away from every such sibling's direction, at least
\* CLUSTER_FOREIGN_MARGIN nearer to its own HQ than to any enemy HQ, at least
\* CROSS_PLAYER_SONAR_BUFFER from every enemy HQ and at least CLUSTER_MIN_SEPARATION from
\* every placed structure of another player.  Positions are whole units, so a distance to
\* the own HQ taken from the positions is within one unit of the sampled radius.
C17_SatelliteChecks ==
  samplingSatellites =>
    LET anchor == hqs[frame.i]
        owner == playerId(frame.i)
    IN \A n \in 1..Len(sats) :
         /\ AtLeast(sats[n], anchor, CLUSTER_DISTANCE_MIN - 1)
         /\ AtMost(sats[n], anchor, CLUSTER_DISTANCE_MAX + 1)
         /\ \A m \in 1..(n - 1) :
              /\ AtLeast(sats[m], sats[n], CLUSTER_MIN_SEPARATION)
              /\ Abs(clampAngle(directionFrom(anchor, sats[m]) - directionFrom(anchor, sats[n])))
                   >= SAT_MIN_ANGLE_SEP
         /\ \A h \in 1..Len(hqs) :
              hqs[h].ownerId # owner =>
                /\ length(hqs[h], sats[n]) - length(anchor, sats[n])
                     >= 10 * (CLUSTER_FOREIGN_MARGIN - 1)
                /\ AtLeast(hqs[h], sats[n], CROSS_PLAYER_SONAR_BUFFER)
         /\ \A m \in 1..Len(placed) :
              placed[m].ownerId # owner => AtLeast(placed[m], sats[n], CLUSTER_MIN_SEPARATION)
\* the third satellite of a later player was accepted while clusters of other players are
\* placed, and two of the three are less than 50 degrees apart as seen from the HQ
C17_Witness ==
  /\ samplingSatellites
  /\ frame.i > 1
  /\ Len(placed) > NUM_PLAYERS
  /\ Len(sats) = SAT_COUNT
  /\ \E n, m \in 1..Len(sats) :
       n # m /\ Abs(clampAngle(directionFrom(hqs[frame.i], sats[m])
                               - directionFrom(hqs[frame.i], sats[n]))) < 50

\* the number of satellites of player j among the placed structures
satellitesOf(j) ==
  Len(SelectSeq(placed, LAMBDA p : p.ownerId = playerId(j) /\ p.type # "hq"))
\* the sampling of the cluster of the player in turn has ended
clusterSampled == pc = "satellites" /\ ~(frame.sat < SAT_COUNT)
\* a player has no satellite among the placed structures
clusterDropped == \E j \in 1..NUM_PLAYERS : satellitesOf(j) = 0
\* in every state a player has all SAT_COUNT satellites or none, and none before the
\* player's turn has ended
allOrNothing ==
  \A j \in 1..NUM_PLAYERS :
    /\ satellitesOf(j) \in {0, SAT_COUNT}
    /\ pc = "satellites" /\ j >= frame.i => satellitesOf(j) = 0
\* a cluster is added in one step, at the end of its player's turn, when SAT_COUNT
\* positions were accepted; with fewer the placed structures stay as they are and the
\* next player is in turn
addedWhenComplete ==
  /\ \A j \in 1..NUM_PLAYERS :
       satellitesOf(j)' > satellitesOf(j) =>
         clusterSampled /\ j = frame.i /\ Len(sats) = SAT_COUNT
  /\ clusterSampled /\ Len(sats) < SAT_COUNT =>
       /\ placed' = placed
       /\ IF frame.i < NUM_PLAYERS
          THEN pc' = "satellites" /\ frame'.i = frame.i + 1
          ELSE pc' = "centerCluster"
\* a pass with a dropped cluster ends in the call with the next seed, or in the
\* RangeError of a stack without room for that call
restartsWhenDropped ==
  pc = "build" /\ clusterDropped =>
    IF depth < MaxStackDepth
    THEN /\ pc' = "start"
         /\ depth' = depth + 1
         /\ resolvedSeed' = normalizeSeed(Seed(FALSE, retrySeedOf(resolvedSeed), FALSE))
         /\ result' = result
    ELSE pc' = "idle" /\ result'.kind = "RangeError"
backfieldShuffled == pc = "backfield" /\ frame.phase # "shuffle"
\* the step leaves the backfield stage
leavesBackfield == pc = "backfield" /\ pc' = "fill"
\* the step places a backfield neutral
placesBackfield == pc = "backfield" /\ Len(neutralPlacements') = Len(neutralPlacements) + 1
\* the HQ the backfield stage is working on, and the neutral the step places for it
backfieldHq == frame.shuffledHqs[frame.i + 1]
backfieldNeutral == neutralPlacements'[Len(neutralPlacements')]
\* the angle between the direction from the HQ to the point and the direction from the
\* map centre to the HQ, in degrees
offAway(hq, p) == Abs(clampAngle(directionFrom(hq, p) - directionFrom(center, hq)))
\* the shuffled HQs are the HQs in some order
shuffledOrder ==
  backfieldShuffled =>
    /\ Len(frame.shuffledHqs) = Len(hqs)
    /\ \A h \in 1..Len(hqs) : countOf(frame.shuffledHqs, hqs[h]) = 1
\* the stage is left only when every one of the NUM_PLAYERS HQs had its attempt (or
\* NEUTRAL_COUNT neutrals exist), and a backfield neutral lies 340 to 430 from its HQ
\* (within a unit, positions being whole units) in a direction within a quarter turn
\* (and a degree) of the direction away from the map centre
onePerHq ==
  /\ leavesBackfield => frame.i = NUM_PLAYERS \/ Len(neutralPlacements) >= NEUTRAL_COUNT
  /\ placesBackfield =>
       /\ AtLeast(backfieldNeutral, backfieldHq, BACKFIELD_RADIUS_RANGE[1] - 1)
       /\ AtMost(backfieldNeutral, backfieldHq, BACKFIELD_RADIUS_RANGE[2] + 1)
       /\ offAway(backfieldHq, backfieldNeutral) <= 90 + 1
\* C20 as stated: the backfield stage attempts one backfield neutral for each of the
\* NUM_PLAYERS HQs, in shuffled order, and each backfield neutral lies 340 to 430 from
\* its HQ on the side facing away from the map centre.
C20_OnePerHq == []shuffledOrder /\ [][onePerHq]_vars
\* the stage is left when the first BACKFIELD_COUNT of the shuffled HQs had their attempt
\* (or NEUTRAL_COUNT neutrals exist); a backfield neutral is placed by an attempt for the
\* HQ in turn, as the projection from that HQ of a radial distance in
\* BACKFIELD_RADIUS_RANGE along a direction within a quarter turn of the direction away
\* from the map centre, and of a lateral offset of at most 30, which turns the direction
\* from the HQ to the neutral by at most 6 degrees
firstBackfieldCount ==
  /\ leavesBackfield =>
       \/ frame.i = BACKFIELD_COUNT
       \/ Len(neutralPlacements) >= NEUTRAL_COUNT
  /\ pc = "backfield" /\ frame.phase = "try" => frame.i < BACKFIELD_COUNT
  /\ placesBackfield =>
       /\ frame.phase = "try"
       /\ frame'.i = frame.i + 1
       /\ Abs(frame.backAngle - directionFrom(center, backfieldHq)) <= 90
       /\ \E radial \in BACKFIELD_RADIUS_RANGE[1]..BACKFIELD_RADIUS_RANGE[2] :
            \E lateral \in (-30)..30 :
              backfieldNeutral = project(backfieldHq.x, backfieldHq.y, frame.backAngle,
                                         radial, lateral)
       /\ AtLeast(backfieldNeutral, backfieldHq, BACKFIELD_RADIUS_RANGE[1] - 1)
       /\ AtMost(backfieldNeutral, backfieldHq, BACKFIELD_RADIUS_RANGE[2] + 2)
       /\ offAway(backfieldHq, backfieldNeutral) <= 90 + 6
\* C20: the backfield stage shuffles the HQs and attempts a backfield neutral for the
\* first BACKFIELD_COUNT of them, in that order, while fewer than NEUTRAL_COUNT neutrals
\* exist; each backfield neutral it places lies 340 to 432 from its HQ, a radial distance
\* of 340 to 430 in a direction within a quarter turn of the direction away from the map
\* centre and at most 30 to the side of it.
C20_Backfield == []shuffledOrder /\ [][firstBackfieldCount]_vars
\* the stage has made its BACKFIELD_COUNT attempts in an order that is not the order of
\* the HQs, each placed its neutral after the three of the centre, and the stage is
\* about to be left with HQs that had no attempt
C20_Witness ==
  /\ backfieldShuffled
  /\ frame.phase = "next"
  /\ frame.i = BACKFIELD_COUNT
  /\ frame.shuffledHqs # hqs
  /\ Len(neutralPlacements) = NEUTRAL_CENTER_COUNT_RANGE.min + BACKFIELD_COUNT
  /\ Len(neutralPlacements) < NEUTRAL_COUNT

\* the stages of a pass that add neutrals before the optimizer passes
placementStages == {"centerCluster", "backfield", "fill"}
\* the optimizer passes
optimizerStages == {"improveNeutrals", "balanceNeutralReach"}
\* the stages of a pass after the optimizer passes, up to the assembly of the structures
afterOptimizer ==
  {"topUp", "clampNearestAccess", "personalNeutral", "hardClamp", "centerFix",
   "centerHigh", "forceOut", "evacuate", "assemble"}
\* the step adds a neutral to the placements of the pass
addsNeutral == Len(neutralPlacements') > Len(neutralPlacements)
\* a neutral is added only by a stage that runs before the optimizer passes
placedBeforeOptimizer == addsNeutral => pc \in placementStages
\* C21 as stated: every stage that adds neutrals, the relaxed top-up included, completes
\* before improveNeutrals and balanceNeutralReach run, so that no neutral is added after
\* the optimizer passes.
C21_PlacementBeforeOptimizer == [][placedBeforeOptimizer]_vars
\* the fill is followed by improveNeutrals, improveNeutrals by balanceNeutralReach and
\* balanceNeutralReach by the top-up; the optimizer passes keep the number of neutrals; a
\* neutral is added only by the centre cluster, the backfield and the fill, before the
\* optimizer passes, and by the top-up, after them, one neutral a step and never more
\* than NEUTRAL_COUNT
optimizerBeforeTopUp ==
  /\ pc = "fill" /\ pc' # pc => pc' = "improveNeutrals"
  /\ pc = "improveNeutrals" /\ pc' # pc => pc' = "balanceNeutralReach"
  /\ pc = "balanceNeutralReach" /\ pc' # pc => pc' = "topUp"
  /\ pc = "topUp" /\ pc' # pc => pc' = "clampNearestAccess"
  /\ pc \in optimizerStages => Len(neutralPlacements') = Len(neutralPlacements)
  /\ addsNeutral =>
       /\ pc \in placementStages \cup {"topUp"}
       /\ Len(neutralPlacements') = Len(neutralPlacements) + 1
       /\ Len(neutralPlacements') <= NEUTRAL_COUNT
  /\ pc' \in optimizerStages \cup afterOptimizer /\ pc \notin optimizerStages \cup afterOptimizer
       => pc = "fill"
\* C21: the centre cluster, the backfield and the fill complete before improveNeutrals
\* and balanceNeutralReach run; the relaxed top-up runs after both optimizer passes, so
\* the neutrals it adds have not been subject to them.
C21_OptimizerBeforeTopUp == [][optimizerBeforeTopUp]_vars
\* the top-up has added a neutral: it has used an attempt and the pass has more neutrals
\* than the optimizer passes left, which left fewer than NEUTRAL_COUNT
C21_Witness ==
  /\ pc = "topUp"
  /\ frame.fillAttempts > 0
  /\ Len(neutralPlacements) = NEUTRAL_COUNT

\* the step is an iteration of improveNeutrals
improveIteration == pc = "improveNeutrals" /\ pc' = "improveNeutrals"
\* the point is at least NEUTRAL_MIN_SEPARATION from every placed structure and from
\* every other neutral of the list, whose last element it is
lastKeepsSeparation(neutrals) ==
  LET proposal == neutrals[Len(neutrals)]
  IN /\ \A n \in 1..Len(placed) :
          lengthSq(placed[n], proposal) >= NEUTRAL_MIN_SEPARATION * NEUTRAL_MIN_SEPARATION
     /\ \A n \in 1..(Len(neutrals) - 1) :
          lengthSq(neutrals[n], proposal) >= NEUTRAL_MIN_SEPARATION * NEUTRAL_MIN_SEPARATION
\* an iteration keeps the incumbent, or replaces one of its neutrals by a proposal that
\* keeps the separation and scores strictly lower; the incumbent's score never rises and
\* the number of neutrals stays
improveStep ==
  improveIteration =>
    /\ Len(neutralPlacements') = Len(neutralPlacements)
    /\ frame'.iter = frame.iter + 1
    /\ frame'.bestScore <= frame.bestScore
    /\ neutralPlacements' # neutralPlacements =>
         /\ \E idx \in 1..Len(neutralPlacements) :
              SubSeq(neutralPlacements', 1, Len(neutralPlacements) - 1)
                = Without(neutralPlacements, idx)
         /\ lastKeepsSeparation(neutralPlacements')
         /\ frame'.bestScore < frame.bestScore
    /\ neutralPlacements' = neutralPlacements => frame'.bestScore = frame.bestScore
\* the score kept with the incumbent is the incumbent's score, and the pass makes at most
\* 400 iterations
incumbentScore ==
  pc = "improveNeutrals" =>
    /\ frame.bestScore = scoreNeutrals(neutralPlacements, hqs)
    /\ frame.iter <= 400
\* C22: in improveNeutrals a proposed replacement of one neutral becomes the incumbent
\* only if it keeps NEUTRAL_MIN_SEPARATION to all placed structures and to the other
\* neutrals and its score is strictly lower than the incumbent's; over the 400 iterations
\* the incumbent's score never increases and the number of neutrals stays the same.
C22_ImproveNeutrals == []incumbentScore /\ [][improveStep]_vars
\* improveNeutrals has made its 400 iterations on fewer than NEUTRAL_COUNT neutrals and
\* the incumbent scores below 200 (the pass began at more than 1200)
C22_Witness ==
  /\ pc = "improveNeutrals"
  /\ frame.iter = 400
  /\ Len(neutralPlacements) \in 1..(NEUTRAL_COUNT - 1)
  /\ frame.bestScore < 20000

\* the reach spread of the neutrals: the largest nearest-two sum of an HQ minus the
\* smallest, in tenths
reachSpread(neutrals) ==
  LET sum(h) == NearestTwoSum(hqs[h], neutrals)
  IN IF \E h \in 1..Len(hqs) : TRUE
     THEN LET hi == CHOOSE h \in 1..Len(hqs) : \A g \in 1..Len(hqs) : sum(g) <= sum(h)
              lo == CHOOSE h \in 1..Len(hqs) : \A g \in 1..Len(hqs) : sum(g) >= sum(h)
          IN sum(hi) - sum(lo)
     ELSE 0
\* HQ h has the largest nearest-two sum
worstOff(h, neutrals) ==
  \A g \in 1..Len(hqs) : NearestTwoSum(hqs[g], neutrals) <= NearestTwoSum(hqs[h], neutrals)
\* no neutral is farther from the HQ than neutral n
farthestFrom(n, hq, neutrals) ==
  \A m \in 1..Len(neutrals) : lengthSq(neutrals[m], hq) <= lengthSq(neutrals[n], hq)
\* the step is a step of balanceNeutralReach
balancing == pc = "balanceNeutralReach"
\* a step of balanceNeutralReach keeps the neutrals, or moves one neutral, which is a
\* farthest one from an HQ with the largest nearest-two sum, to within 260..720 of that HQ
\* (within a unit) and to a strictly smaller spread; the spread never rises, the number
\* of neutrals stays, and the pass is left only when the spread is at most 120, when the
\* 200 attempts are used or when 200 samples gave no proposal
balanceStep ==
  balancing =>
    /\ Len(neutralPlacements') = Len(neutralPlacements)
    /\ reachSpread(neutralPlacements') <= reachSpread(neutralPlacements)
    /\ neutralPlacements' # neutralPlacements =>
         /\ reachSpread(neutralPlacements') < reachSpread(neutralPlacements)
         /\ \E n \in 1..Len(neutralPlacements) : \E h \in 1..Len(hqs) :
              /\ \A m \in 1..Len(neutralPlacements) :
                   m # n => neutralPlacements'[m] = neutralPlacements[m]
              /\ worstOff(h, neutralPlacements)
              /\ farthestFrom(n, hqs[h], neutralPlacements)
              /\ AtLeast(neutralPlacements'[n], hqs[h], 260 - 1)
              /\ AtMost(neutralPlacements'[n], hqs[h], 720 + 1)
    /\ pc' # pc =>
         /\ pc' = "topUp"
         /\ neutralPlacements' = neutralPlacements
         /\ \/ frame.phase = "head" /\ reachSpread(neutralPlacements) <= 1200
            \/ frame.phase = "head" /\ frame.attempts = 200
            \/ frame.phase = "try" /\ frame.t = 200 - 1
    /\ pc' = pc /\ frame.phase = "head" =>
         reachSpread(neutralPlacements) > 1200 /\ frame'.attempts = frame.attempts + 1
\* C23: balanceNeutralReach relocates in each attempt only the neutral farthest from the
\* HQ of the player with the largest nearest-two sum and keeps the relocation only if the
\* spread becomes strictly smaller; the spread never increases, the number of neutrals is
\* unchanged, and the pass stops once the spread is at most 120, no proposal is found or
\* 200 attempts are used.
C23_BalanceNeutralReach == [][balanceStep]_vars
\* an attempt of balanceNeutralReach has just moved a neutral: the spread is smaller than
\* the one the attempt began with
C23_Witness ==
  /\ balancing
  /\ frame.phase = "head"
  /\ frame.attempts >= 1
  /\ reachSpread(neutralPlacements) < frame.currentSpread

\* the HQ and neutral positions rebalanceNeutrals is called with
hqPositions == normalizedHqs(allPoints)
neutralPositions == normalizedNeutrals(allPoints)
\* the sum of the distances from a point to its two nearest neutrals (the nearest one
\* twice when there is only one), in tenths
twoNearest(from, neutrals) ==
  LET d == NearestThree(from, neutrals)
  IN IF Len(d) = 1 THEN 2 * d[1] ELSE d[1] + d[2]
\* the neutral spread is at most limit and the isolation range is at most isoLimit
withinLimits(hqPts, neutrals, limit, isoLimit) ==
  /\ \A g, h \in 1..Len(hqPts) :
       twoNearest(hqPts[g], neutrals) - twoNearest(hqPts[h], neutrals) <= 10 * limit
  /\ isolationRangeMetric(nearestNeutralDists(hqPts, neutrals), enemyAvg(hqPts)).range
       <= 60 * isoLimit
\* rebalanceNeutrals is entered without HQs, without neutrals, or with both metrics
\* within their limits
nothingToRebalance ==
  /\ pc = "rebalanceNeutrals"
  /\ frame.iter = 0
  /\ \/ Len(hqPositions) = 0
     \/ Len(neutralPositions) = 0
     \/ withinLimits(hqPositions, neutralPositions, 320, 300)
\* the call returns at once: no point is changed and nothing is drawn
returnsUnchanged ==
  nothingToRebalance =>
    /\ pc' = "centerEvac"
    /\ allPoints' = allPoints
    /\ s' = s
    /\ drawn'.ks = <<>>
\* C24: rebalanceNeutrals leaves neutralPositions unchanged and draws nothing from the
\* RNG when hqPositions is empty, when neutralPositions is empty, or when on entry the
\* neutral spread and the isolation range are both within their limits.
C24_NothingToRebalance == [][returnsUnchanged]_vars
\* the call has returned from a layout with HQs and neutrals whose spread was above half
\* its limit, with the RNG where it was
C24_Witness ==
  /\ pc = "centerEvac"
  /\ Len(hqPositions) = NUM_PLAYERS
  /\ Len(neutralPositions) = NEUTRAL_COUNT
  /\ ~withinLimits(hqPositions, neutralPositions, 160, 300)
  /\ s = drawn.from
  /\ drawn.ks = <<>>
  /\ s \in RebalanceRngStates

\* an iteration of the loop of rebalanceNeutrals is about to run
rebalancing ==
  /\ pc = "rebalanceNeutrals"
  /\ Len(hqPositions) > 0
  /\ Len(neutralPositions) > 0
  /\ frame.iter < rebalanceOpts.maxIterations
  /\ ~withinLimits(hqPositions, neutralPositions, 320, 300)
\* the overage penalty of the points, in sixtieths
penaltyOf(pts) ==
  LET p(hqPts, ndists) ==
        overagePenalty(neutralSpreadMetric(ndists).spread,
                       isolationRangeMetric(ndists, enemyAvg(hqPts)).range)
  IN p(normalizedHqs(pts), nearestNeutralDists(normalizedHqs(pts), normalizedNeutrals(pts)))
\* the neutrals of the iteration that the step moves
movedNeutrals ==
  {n \in 1..Len(neutralPositions) : normalizedNeutrals(allPoints')[n] # neutralPositions[n]}
\* the position is one rebalanceNeutrals may apply to neutral n: inside the map, within
\* maxDistanceToCenter of the centre, at least minNeutralSeparation from every other
\* neutral and every owned structure
applicable(n, pos) ==
  /\ pos.x >= 0 /\ pos.x <= MAP_WIDTH /\ pos.y >= 0 /\ pos.y <= MAP_HEIGHT
  /\ lengthSq(pos, center) <= 1600 * 1600
  /\ \A m \in 1..Len(neutralPositions) :
       m # n => lengthSq(pos, neutralPositions[m]) >= 150 * 150
  /\ \A m \in 1..Len(allPoints) :
       allPoints[m].ownerId # "" => lengthSq(pos, allPoints[m]) >= 150 * 150
\* what the iteration about to run considers: its locals, the candidates it samples and
\* the grid, and the verdict on a candidate taken alone (acceptable or not, its penalty)
iterationNow ==
  iteration(hqPositions, neutralPositions, normalizedPlayerStructures(allPoints), frame.iter)
verdict(candidate, it) ==
  CHOOSE v \in {considerCandidate(candidate, it, NoMove)} : TRUE
sampledAt(it, a) ==
  LET ds == Draws(s, 24)
  IN samplePosNearHQ(it, ds[2 * a - 1].k, ds[2 * a].k)
gridAt(it, n) ==
  polar(it.targetHQ, fallbackRadii[((n - 1) % Len(fallbackRadii)) + 1],
        it.towardCenterAngle + fallbackAngles[((n - 1) \div Len(fallbackRadii)) + 1])
sampleVerdicts(it) ==
  Tuple([a \in 1..12 |-> [at |-> sampledAt(it, a), v |-> verdict(sampledAt(it, a), it)]])
gridVerdicts(it) ==
  Tuple([n \in 1..(Len(fallbackAngles) * Len(fallbackRadii)) |->
           [at |-> gridAt(it, n), v |-> verdict(gridAt(it, n), it)]])
\* the samples taken: up to the first acceptable one without penalty
taken(tried) ==
  {a \in 1..12 : \A b \in 1..(a - 1) : ~(tried[b].v.some /\ tried[b].v.penalty = 0)}
\* the candidates considered: the samples taken, and the grid when none of them is acceptable
consideredOf(tried, grid) ==
  {tried[a] : a \in taken(tried)}
    \cup (IF \E a \in taken(tried) : tried[a].v.some THEN {}
          ELSE {grid[n] : n \in 1..Len(grid)})
\* an iteration of rebalanceNeutrals moves at most one neutral and nothing else; the
\* position applied is a considered candidate that is acceptable and has the lowest
\* penalty of the acceptable ones considered, a grid point only when no sample was
\* acceptable; it is applicable and leaves at most maxCenterCount neutrals in the centre;
\* the penalty does not rise; without an acceptable candidate nothing moves
iterated(it, tried, considered) ==
  /\ pc' = "rebalanceNeutrals"
  /\ frame'.iter = frame.iter + 1
  /\ Len(allPoints') = Len(allPoints)
  /\ normalizedPlayerStructures(allPoints') = normalizedPlayerStructures(allPoints)
  /\ Cardinality(movedNeutrals) <= 1
  /\ penaltyOf(allPoints') <= it.penalty
  /\ Len(drawn'.ks) = 2 * Cardinality(taken(tried))
  /\ \A n \in movedNeutrals :
       \E applied \in considered :
         /\ n = it.idxToMove
         /\ applied.at = Pos(normalizedNeutrals(allPoints')[n])
         /\ applied.v.some
         /\ \A c \in considered : c.v.some => applied.v.penalty <= c.v.penalty
         /\ penaltyOf(allPoints') = applied.v.penalty
         /\ applicable(n, applied.at)
         /\ centerCount(normalizedNeutrals(allPoints')) <= NEUTRAL_CENTER_COUNT_RANGE.max
  /\ movedNeutrals = {} =>
       \A c \in considered : c.v.some => c.at = Pos(neutralPositions[it.idxToMove])
rebalanceStep ==
  rebalancing =>
    \E it \in {iterationNow} :
      \E tried \in {sampleVerdicts(it)} :
        \E considered \in {consideredOf(tried, gridVerdicts(it))} :
          iterated(it, tried, considered)
\* C25: every iteration of rebalanceNeutrals moves at most one neutral; the move applied
\* is the acceptable candidate with the lowest overage penalty among those the iteration
\* considered; the grid is consulted only when none of the sampled candidates was
\* acceptable; the penalty after an iteration is not greater than before; every applied
\* position is inside the map, within maxDistanceToCenter of the centre, at least
\* minNeutralSeparation from every other neutral and every owned structure, and leaves at
\* most maxCenterCount neutrals in the centre.
C25_RebalanceIteration == [][rebalanceStep]_vars
\* the iteration about to run finds none of its tried acceptable and an acceptable
\* point on the grid
C25_Witness ==
  /\ rebalancing
  /\ \E it \in {iterationNow} :
       /\ \A a \in 1..12 : ~verdict(sampledAt(it, a), it).some
       /\ \E n \in 1..(Len(fallbackAngles) * Len(fallbackRadii)) : verdict(gridAt(it, n), it).some


(***************************************************************************)
(* The generator as a running program: a call that has begun keeps taking  *)
(* its steps (the code is sequential and nothing in it waits)              *)
(***************************************************************************)
InitPass == InitWith(CallScripts \cup RetryScripts)
\* a step of a call in progress: the call is not over and the state changes.  The first
\* disjunct is a case of the second; under [][Next]_vars the steps taken are those of Next
Running ==
  /\ pc # "idle"
  /\ \/ /\ pc' = "idle"
        /\ UNCHANGED <<script, option, resolvedSeed, depth, s, hqs, placed, sats,
                       neutralPlacements, frame, allPoints, result, history, drawn>>
        /\ UNCHANGED <<reportVars, fogVars>>
     \/ vars' # vars
SpecPass == InitPass /\ [][Next]_vars /\ WF_vars(Running)

\* the stages of a pass: from the seeding of the RNG to the count check
passStages ==
  {"start", "satellites"} \cup placementStages \cup optimizerStages \cup afterOptimizer
    \cup {"rebalanceNeutrals", "centerEvac", "finalSpread", "centerShort", "build"}
\* the placements of a pass never hold more than 10 neutrals
atMostTenNeutrals == Len(neutralPlacements) <= 10
\* a step of the fill loop adds at most one neutral; a neutral is added by a mid sample or
\* by an outer sample, and the loop goes back to its head; the outer template is drawn
\* only after the 140 mid samples failed; the loop is left for improveNeutrals, either at
\* its head with 10 neutrals or after the 140 outer samples failed
fillStep ==
  pc = "fill" =>
    /\ Len(neutralPlacements') \in {Len(neutralPlacements), Len(neutralPlacements) + 1}
    /\ frame.phase \in {"mid", "outer"} => frame.attempt < 140
    /\ addsNeutral => /\ frame.phase \in {"mid", "outer"}
                      /\ pc' = "fill"
                      /\ frame'.phase = "head"
    /\ pc' = "fill" /\ frame'.phase = "template" =>
         /\ frame.phase = "mid"
         /\ frame.attempt = 139
         /\ ~addsNeutral
    /\ pc' = "fill" /\ frame'.phase = "outer" => frame.phase \in {"template", "outer"}
    /\ pc' # "fill" =>
         /\ pc' = "improveNeutrals"
         /\ ~addsNeutral
         /\ \/ frame.phase = "head" /\ Len(neutralPlacements) = 10
            \/ frame.phase = "outer" /\ frame.attempt = 139
\* a pass that has begun reaches its count check, and the count check ends it
passEnds ==
  /\ (pc \in passStages) ~> (pc = "build")
  /\ (pc = "build") ~> (pc \in {"idle", "start"})
\* C26: a single generation pass (one invocation up to its final count check, the restart
\* with seed + 1 not counted) always terminates; the fill loop, which has no budget of its
\* own, adds one neutral per iteration (a mid sample first, an outer template only when
\* that fails) or is left when both fail, and never holds more than 10 neutrals.
C26_PassTerminates == []atMostTenNeutrals /\ [][fillStep]_vars /\ passEnds
\* a pass is at its count check with fewer than 10 neutrals: its fill loop was left after
\* both samplers failed
C26_Witness ==
  /\ pc = "build"
  /\ Len(neutralPlacements) < 10


\* what a check reads of a report: the metric that feeds the statistic of the check
metricOfCheck(definition, report) ==
  metricAt(report.metrics,
           STAT_SOURCES[CHOOSE n \in 1..Len(STAT_SOURCES) :
                          STAT_SOURCES[n].key = definition.statKey].metric)
\* the scenario of the report satisfies the threshold of the check on its own
scenarioSatisfies(definition, report, thresholds) ==
  IF definition.direction = "max"
  THEN metricOfCheck(definition, report) <= thresholds[definition.thresholdKey]
  ELSE metricOfCheck(definition, report) >= thresholds[definition.thresholdKey]
\* the narrative in hand was built from the samples in hand, of at least one seed
narrated ==
  /\ narrative.kind = "narrative"
  /\ samples.kind = "samples"
  /\ Len(samples.reports) >= 1
\* the metric of the check is finite for every sampled scenario
finiteThroughout(definition) ==
  \A n \in 1..Len(samples.reports) : isFinite(metricOfCheck(definition, samples.reports[n]))
\* C27: for a run of n >= 1 seeds in which the metric is finite for every scenario, each
\* fairness check has passed = true exactly when every sampled scenario satisfies the
\* threshold of the check on its own (metric <= limit for 'max' checks, metric >= limit
\* for 'min' checks); the direction of every check is the reducer of the statistic it
\* reads.
C27_ChecksAgreeWithScenarios ==
  /\ \A n \in 1..Len(CHECK_DEFINITIONS) :
       CHECK_DEFINITIONS[n].direction = reducer(CHECK_DEFINITIONS[n].statKey)
  /\ narrated =>
       \A n \in 1..Len(CHECK_DEFINITIONS) :
         finiteThroughout(CHECK_DEFINITIONS[n]) =>
           (narrative.returned.checks[n].passed
              <=> \A r \in 1..Len(samples.reports) :
                    scenarioSatisfies(CHECK_DEFINITIONS[n], samples.reports[r],
                                      narrative.thresholds))
\* three seeds were sampled, and a 'min' check whose metric is finite throughout fails
\* although two of the three scenarios satisfy its threshold
C27_Witness ==
  /\ narrated
  /\ Len(samples.reports) = 3
  /\ \E n \in 1..Len(CHECK_DEFINITIONS) :
       /\ CHECK_DEFINITIONS[n].direction = "min"
       /\ finiteThroughout(CHECK_DEFINITIONS[n])
       /\ ~narrative.returned.checks[n].passed
       /\ Cardinality({r \in 1..3 : scenarioSatisfies(CHECK_DEFINITIONS[n], samples.reports[r],
                                                       narrative.thresholds)}) = 2


\* C28: for every normalized seed, the 32-bit state of the RNG is never 0 once the RNG is
\* seeded, whatever the number of draws made.
C28_StateNeverZero == pc \notin {"idle", "start"} => s # <<0, 0>>


\* the repair steps that follow the normalization
repairStages == {"rebalanceNeutrals", "centerEvac", "finalSpread", "centerShort"}
\* a repair step keeps the number and the order of the structures, the id, type and owner
\* of each, and the position of every owned one
repairStep ==
  pc \in repairStages =>
    /\ Len(allPoints') = Len(allPoints)
    /\ \A n \in 1..Len(allPoints) :
         /\ allPoints'[n].id = allPoints[n].id
         /\ allPoints'[n].type = allPoints[n].type
         /\ allPoints'[n].ownerId = allPoints[n].ownerId
         /\ allPoints[n].ownerId # "" => Pos(allPoints'[n]) = Pos(allPoints[n])
\* during and after the repairs every HQ and satellite is where the uniform scaling of the
\* placements put it
ownedAsScaled ==
  pc \in repairStages \cup {"build"} =>
    normalizedPlayerStructures(allPoints)
      = normalizedPlayerStructures(
          normalize(placed \o neutralsOf(neutralPlacements, NEUTRAL_TYPE_POOL)))
\* C29: after normalization, every repair step (rebalanceNeutrals, the centre evacuation
\* after it, the final-spread fix and the centre-shortfall fix) changes only the x/y
\* position of neutral structures: it never adds or removes a structure, never changes an
\* id, type or owner, and leaves every HQ and satellite at its uniformly scaled placement
\* position.
C29_RepairsMoveNeutralsOnly == []ownedAsScaled /\ [][repairStep]_vars
\* the repairs are over and have moved a neutral away from its scaled placement position
C29_Witness ==
  /\ pc = "build"
  /\ Len(placed) = 20
  /\ \E n \in 1..Len(normalizedNeutrals(allPoints)) :
       Pos(normalizedNeutrals(allPoints)[n])
         # Pos(normalizedNeutrals(
                 normalize(placed \o neutralsOf(neutralPlacements, NEUTRAL_TYPE_POOL)))[n])


\* the points in hand as the scenario evaluateScenarioFairness is given
scenarioOfPoints == [players |-> players, structures |-> allPoints]
\* the points hold one HQ per player, at least 3 HQs, and at least 3 neutrals
comparable ==
  /\ Len(hqPositions) >= 3
  /\ Len(hqPositions) = Len(players)
  /\ \A i \in 1..Len(players) :
       Len(SelectSeq(hqPositions, LAMBDA hq : hq.ownerId = players[i].id)) = 1
  /\ Len(neutralPositions) >= 3
\* what rebalanceNeutrals measures on the points, in sixtieths
rebalancerSpread ==
  neutralSpreadMetric(nearestNeutralDists(hqPositions, neutralPositions)).spread
rebalancerIsolationRange ==
  isolationRangeMetric(nearestNeutralDists(hqPositions, neutralPositions),
                       enemyAvg(hqPositions)).range
\* C30: for the same positions of one HQ per player (at least 3 HQs) and at least 3
\* neutrals, the neutral spread and the isolation range that rebalanceNeutrals computes
\* are the nearestNeutralSpread and the isolationRange that evaluateScenarioFairness
\* reports, so that points the rebalancer finds within limits are within the same limits
\* for the harness.
C30_SameMetrics ==
  comparable =>
    /\ rebalancerSpread = 6 * nearestNeutralSpread(scenarioOfPoints)
    /\ rebalancerIsolationRange = isolationRangeOf(scenarioOfPoints)
    /\ withinLimits(hqPositions, neutralPositions, 320, 300)
         => /\ nearestNeutralSpread(scenarioOfPoints) <= 3200
            /\ isolationRangeOf(scenarioOfPoints) <= 300 * 60
\* rebalanceNeutrals has returned, leaving points within its limits, with a spread and an
\* isolation range that are not 0
C30_Witness ==
  /\ comparable
  /\ pc = "centerEvac"
  /\ withinLimits(hqPositions, neutralPositions, 320, 300)
  /\ rebalancerSpread > 0
  /\ rebalancerIsolationRange > 0
====
